---- MODULE Spec2Model ----
(***************************************************************************)
(* A model of the pewter chess engine: board representation, legal move    *)
(* generation, move application, the iterative-deepening searcher and the  *)
(* engine server thread.  Bitboards are modelled as sets of squares, a     *)
(* square being its bitboard offset rank*8 + file.                         *)
(***************************************************************************)
EXTENDS Integers, Sequences, FiniteSets, TLC

(***************************************************************************)
(* Color, Piece                                                            *)
(***************************************************************************)
White == "White"
Black == "Black"
Color == {White, Black}

Not(c) == IF c = White THEN Black ELSE White

numbered_rank(c, num) == IF c = White THEN num - 1 ELSE 8 - num

Pawn == "Pawn"
Rook == "Rook"
Knight == "Knight"
Bishop == "Bishop"
King == "King"
Queen == "Queen"
Piece == {Pawn, Rook, Knight, Bishop, King, Queen}

PieceAll == <<Pawn, Rook, Knight, Bishop, King, Queen>>

None == "None"

NoPos == 0 - 1

(***************************************************************************)
(* Coordinates                                                             *)
(***************************************************************************)
Sq == 0 .. 63

SqSeq == [i \in 1 .. 64 |-> i - 1]

FileOf(pos) == pos % 8

RankOf(pos) == pos \div 8

from_file_rank(f, r) == r * 8 + f

A1 == from_file_rank(0, 0)
C1 == from_file_rank(2, 0)
D1 == from_file_rank(3, 0)
E1 == from_file_rank(4, 0)
F1 == from_file_rank(5, 0)
G1 == from_file_rank(6, 0)
H1 == from_file_rank(7, 0)
A8 == from_file_rank(0, 7)
C8 == from_file_rank(2, 7)
D8 == from_file_rank(3, 7)
E8 == from_file_rank(4, 7)
F8 == from_file_rank(5, 7)
G8 == from_file_rank(6, 7)
H8 == from_file_rank(7, 7)

forward(pos, c) ==
    LET x == RankOf(pos) + (IF c = White THEN 1 ELSE -1)
    IN  IF x >= 0 /\ x <= 7 THEN from_file_rank(FileOf(pos), x) ELSE NoPos

left(pos) ==
    LET x == FileOf(pos) - 1
    IN  IF x >= 0 THEN from_file_rank(x, RankOf(pos)) ELSE NoPos

right(pos) ==
    LET x == FileOf(pos) + 1
    IN  IF x <= 7 THEN from_file_rank(x, RankOf(pos)) ELSE NoPos

(***************************************************************************)
(* BitBoard helpers                                                        *)
(***************************************************************************)
iter_set(bb) == SelectSeq(SqSeq, LAMBDA s : s \in bb)

first_set(bb) ==
    IF bb = {} THEN NoPos ELSE CHOOSE s \in bb : \A t \in bb : s <= t

xor(a, b) == (a \ b) \cup (b \ a)

Abs(x) == IF x < 0 THEN 0 - x ELSE x

(***************************************************************************)
(* Precomputed masks                                                       *)
(***************************************************************************)
RANKS == [r \in 0 .. 7 |-> {s \in Sq : RankOf(s) = r}]

FILES == [f \in 0 .. 7 |-> {s \in Sq : FileOf(s) = f}]

rank(r) == RANKS[r]

file(f) == FILES[f]

DIAG_LOOKUP ==
    [i \in 0 .. 29 |->
        {s \in Sq : FileOf(s) - RankOf(s) + 22 = i \/ FileOf(s) + RankOf(s) = i}]

diagonal(pos) == DIAG_LOOKUP[FileOf(pos) + 22 - RankOf(pos)]

antidiagonal(pos) == DIAG_LOOKUP[FileOf(pos) + RankOf(pos)]

ROOK_RAYS == [pos \in Sq |-> (rank(RankOf(pos)) \cup file(FileOf(pos))) \ {pos}]

BISHOP_RAYS == [pos \in Sq |-> (diagonal(pos) \cup antidiagonal(pos)) \ {pos}]

rook_rays(pos) == ROOK_RAYS[pos]

bishop_rays(pos) == BISHOP_RAYS[pos]

castling_moves_all == {E1, G1, E8, G8} \cup {E1, C1, E8, C8}

\* A faulty double_pawn_moves that gives the mask of White to both colors:
\* C20 tells the two apart.
double_pawn_moves_white(c) ==
    {pos \in Sq : RankOf(pos) = 1 \/ RankOf(pos) = 3}

double_pawn_moves(c) ==
    IF c = White THEN rank(1) \cup rank(3) ELSE rank(6) \cup rank(4)

line_slow(a, b) ==
    IF a = b THEN {}
    ELSE IF FileOf(a) = FileOf(b) THEN file(FileOf(a))
    ELSE IF RankOf(a) = RankOf(b) THEN rank(RankOf(a))
    ELSE IF diagonal(a) = diagonal(b) THEN diagonal(a)
    ELSE IF antidiagonal(a) = antidiagonal(b) THEN antidiagonal(a)
    ELSE {}

LINE_TABLE == [a \in Sq |-> [b \in Sq |-> line_slow(a, b)]]

line(a, b) == LINE_TABLE[a][b]

int_between(a, b, test) ==
    IF a < b THEN a < test /\ test < b ELSE b < test /\ test < a

\* A faulty between_slow that looks for the squares above a and below b
\* only: C30 tells the two apart.
between_slow_upwards(a, b) ==
    IF a = b THEN {}
    ELSE IF RankOf(a) = RankOf(b)
         THEN {s \in line_slow(a, b) : FileOf(a) < FileOf(s) /\ FileOf(s) < FileOf(b)}
         ELSE {s \in line_slow(a, b) : RankOf(a) < RankOf(s) /\ RankOf(s) < RankOf(b)}

between_slow(a, b) ==
    IF a = b THEN {}
    ELSE IF RankOf(a) = RankOf(b)
         THEN {s \in line_slow(a, b) : int_between(FileOf(a), FileOf(b), FileOf(s))}
         ELSE {s \in line_slow(a, b) : int_between(RankOf(a), RankOf(b), RankOf(s))}

BETWEEN_TABLE == [a \in Sq |-> [b \in Sq |-> between_slow(a, b)]]

between(a, b) == BETWEEN_TABLE[a][b]

castling_required_empty(c, kingside) ==
    IF c = White
    THEN (IF kingside THEN between(E1, H1) ELSE between(A1, E1))
    ELSE (IF kingside THEN between(E8, H8) ELSE between(A8, E8))

PAWN_PUSHES ==
    [c \in Color |-> [pos \in Sq |->
        IF RankOf(pos) < 1 \/ RankOf(pos) >= 7 THEN {}
        ELSE IF c = White
             THEN {from_file_rank(FileOf(pos), RankOf(pos) + 1)}
                  \cup (IF RankOf(pos) = 1
                        THEN {from_file_rank(FileOf(pos), RankOf(pos) + 2)} ELSE {})
             ELSE {from_file_rank(FileOf(pos), RankOf(pos) - 1)}
                  \cup (IF RankOf(pos) = 6
                        THEN {from_file_rank(FileOf(pos), RankOf(pos) - 2)} ELSE {})]]

pawn_pushes(c, pos) == PAWN_PUSHES[c][pos]

PAWN_ATTACKS ==
    [c \in Color |-> [pos \in Sq |->
        LET ahead == IF c = White THEN RankOf(pos) + 1 ELSE RankOf(pos) - 1
        IN  IF ahead < 0 \/ ahead > 7 THEN {}
            ELSE (IF FileOf(pos) > 0 THEN {from_file_rank(FileOf(pos) - 1, ahead)} ELSE {})
                 \cup (IF FileOf(pos) < 7 THEN {from_file_rank(FileOf(pos) + 1, ahead)} ELSE {})]]

pawn_attacks(c, pos) == PAWN_ATTACKS[c][pos]

KNIGHT_MOVE_OFFSETS ==
    << <<2, -1>>, <<2, 1>>, <<1, -2>>, <<1, 2>>, <<-1, -2>>, <<-1, 2>>, <<-2, -1>>, <<-2, 1>> >>

KING_MOVE_OFFSETS ==
    << <<-1, 1>>, <<0, 1>>, <<1, 1>>, <<-1, -1>>, <<0, -1>>, <<1, -1>>, <<-1, 0>>, <<1, 0>> >>

offset_moves(source, offsets) ==
    {from_file_rank(FileOf(source) + offsets[i][1], RankOf(source) + offsets[i][2]) :
        i \in {j \in DOMAIN offsets :
                 /\ FileOf(source) + offsets[j][1] >= 0
                 /\ FileOf(source) + offsets[j][1] <= 7
                 /\ RankOf(source) + offsets[j][2] >= 0
                 /\ RankOf(source) + offsets[j][2] <= 7}}

KNIGHT_MOVES == [pos \in Sq |-> offset_moves(pos, KNIGHT_MOVE_OFFSETS)]

KING_MOVES == [pos \in Sq |-> offset_moves(pos, KING_MOVE_OFFSETS)]

knight_moves(source, blockers) == KNIGHT_MOVES[source] \ blockers

king_moves(source, our_pieces) == KING_MOVES[source] \ our_pieces

(***************************************************************************)
(* Board                                                                   *)
(***************************************************************************)
Board_new_empty ==
    [piece_boards |-> [p \in Piece |-> {}], color_boards |-> [c \in Color |-> {}]]

piece_board(board, piece) == board.piece_boards[piece]

color_board(board, c) == board.color_boards[c]

color_piece_board(board, c, piece) == color_board(board, c) \cap piece_board(board, piece)

all_union_board(board) == color_board(board, White) \cup color_board(board, Black)

Board_king_pos(board, c) == first_set(piece_board(board, King) \cap color_board(board, c))

xor_inplace(board, c, piece, arg) ==
    [piece_boards |-> [board.piece_boards EXCEPT ![piece] = xor(@, arg)],
     color_boards |-> [board.color_boards EXCEPT ![c] = xor(@, arg)]]

union_inplace(board, c, piece, arg) ==
    [piece_boards |-> [board.piece_boards EXCEPT ![piece] = @ \cup arg],
     color_boards |-> [board.color_boards EXCEPT ![c] = @ \cup arg]]

\* A faulty intersect_inplace that forgets the color board: C2 tells the two
\* apart.
intersect_inplace_piece_only(board, c, piece, arg) ==
    [piece_boards |-> [board.piece_boards EXCEPT ![piece] = @ \cap arg],
     color_boards |-> board.color_boards]

intersect_inplace(board, c, piece, arg) ==
    [piece_boards |-> [board.piece_boards EXCEPT ![piece] = @ \cap arg],
     color_boards |-> [board.color_boards EXCEPT ![c] = @ \cap arg]]

Board_set(board, c, piece, pos) == union_inplace(board, c, piece, {pos})

Board_clear(board, c, piece, pos) == intersect_inplace(board, c, piece, Sq \ {pos})

add_piece(board, pos, c, piece) == xor_inplace(board, c, piece, {pos})

\* Some((color, piece)) is the pair <<color, piece>>; the piece is the first
\* one in Piece::iter_all() order whose board holds the square.
Board_get(board, pos) ==
    IF pos \in color_board(board, White) \/ pos \in color_board(board, Black)
    THEN LET c == IF pos \in color_board(board, White) THEN White ELSE Black
             hits == {i \in 1 .. 6 : pos \in piece_board(board, PieceAll[i])}
         IN  IF hits = {} THEN "Inconsistent"
             ELSE <<c, PieceAll[CHOOSE i \in hits : \A j \in hits : i <= j]>>
    ELSE None

(***************************************************************************)
(* State                                                                   *)
(***************************************************************************)
WHITE_KINGSIDE == "K"
WHITE_QUEENSIDE == "Q"
BLACK_KINGSIDE == "k"
BLACK_QUEENSIDE == "q"
ALL_WHITE == {WHITE_KINGSIDE, WHITE_QUEENSIDE}
ALL_BLACK == {BLACK_KINGSIDE, BLACK_QUEENSIDE}

CastleRights_get(rights, c, kingside) ==
    IF c = White
    THEN (IF kingside THEN WHITE_KINGSIDE \in rights ELSE WHITE_QUEENSIDE \in rights)
    ELSE (IF kingside THEN BLACK_KINGSIDE \in rights ELSE BLACK_QUEENSIDE \in rights)

State_new_empty ==
    [to_play |-> White,
     castle_rights |-> {},
     en_passant |-> NoPos,
     halfmove_clock |-> 0,
     fullmove_counter |-> 0,
     board |-> Board_new_empty,
     pinned |-> {},
     checkers |-> {}]

\* The value standing for a panicked call (an expect() or unwrap() that failed).
Panic == [panic |-> TRUE]

IsPanic(x) == "panic" \in DOMAIN x

king_pos(state, c) == Board_king_pos(state.board, c)

in_check(state) == state.checkers # {}

\* A faulty recompute_pins_and_checks that misses the pawns giving check: C12
\* tells the two apart.
recompute_pins_and_checks_no_pawns(state) ==
    LET our_color == state.to_play
        opp_color == Not(our_color)
        k_pos == king_pos(state, our_color)
        k_mask == {k_pos}
        opp_color_mask == color_board(state.board, opp_color)
        queens == piece_board(state.board, Queen)
        pinner_bishops ==
            ((piece_board(state.board, Bishop) \cup queens) \cap opp_color_mask)
                \cap bishop_rays(k_pos)
        pinner_rooks ==
            ((piece_board(state.board, Rook) \cup queens) \cap opp_color_mask)
                \cap rook_rays(k_pos)
        all_pinners == pinner_bishops \cup pinner_rooks
        union_board == all_union_board(state.board)
        btw(pos) == between(pos, k_pos) \cap union_board
        slider_checkers == {pos \in all_pinners : Cardinality(btw(pos)) = 0}
        slider_pinned ==
            UNION {btw(pos) : pos \in {q \in all_pinners : Cardinality(btw(q)) = 1}}
        pawn_checkers ==
            {pawn \in color_piece_board(state.board, opp_color, Pawn) :
                pawn_attacks(Not(state.to_play), pawn) \cap k_mask # {}}
        knight_checkers ==
            {knight \in color_piece_board(state.board, opp_color, Knight) :
                knight_moves(knight, Sq \ k_mask) # {}}
    IN  [state EXCEPT
            !.pinned = slider_pinned \cap color_board(state.board, our_color),
            !.checkers = slider_checkers \cup knight_checkers]

\* A faulty recompute_pins_and_checks that keeps enemy blockers in pinned:
\* C13 tells the two apart.
recompute_pins_and_checks_any_color(state) ==
    LET our_color == state.to_play
        opp_color == Not(our_color)
        k_pos == king_pos(state, our_color)
        k_mask == {k_pos}
        opp_color_mask == color_board(state.board, opp_color)
        queens == piece_board(state.board, Queen)
        pinner_bishops ==
            ((piece_board(state.board, Bishop) \cup queens) \cap opp_color_mask)
                \cap bishop_rays(k_pos)
        pinner_rooks ==
            ((piece_board(state.board, Rook) \cup queens) \cap opp_color_mask)
                \cap rook_rays(k_pos)
        all_pinners == pinner_bishops \cup pinner_rooks
        union_board == all_union_board(state.board)
        btw(pos) == between(pos, k_pos) \cap union_board
        slider_checkers == {pos \in all_pinners : Cardinality(btw(pos)) = 0}
        slider_pinned ==
            UNION {btw(pos) : pos \in {q \in all_pinners : Cardinality(btw(q)) = 1}}
        pawn_checkers ==
            {pawn \in color_piece_board(state.board, opp_color, Pawn) :
                pawn_attacks(Not(state.to_play), pawn) \cap k_mask # {}}
        knight_checkers ==
            {knight \in color_piece_board(state.board, opp_color, Knight) :
                knight_moves(knight, Sq \ k_mask) # {}}
    IN  [state EXCEPT
            !.pinned = slider_pinned,
            !.checkers = slider_checkers \cup pawn_checkers \cup knight_checkers]

\* The body of State::recompute_pins_and_checks for a state whose side to
\* move has a king: the pair of the new pinned and checkers boards.
recompute_pins_and_checks(state) ==
    LET our_color == state.to_play
        opp_color == Not(our_color)
        k_pos == king_pos(state, our_color)
        k_mask == {k_pos}
        opp_color_mask == color_board(state.board, opp_color)
        queens == piece_board(state.board, Queen)
        pinner_bishops ==
            ((piece_board(state.board, Bishop) \cup queens) \cap opp_color_mask)
                \cap bishop_rays(k_pos)
        pinner_rooks ==
            ((piece_board(state.board, Rook) \cup queens) \cap opp_color_mask)
                \cap rook_rays(k_pos)
        all_pinners == pinner_bishops \cup pinner_rooks
        union_board == all_union_board(state.board)
        btw(pos) == between(pos, k_pos) \cap union_board
        slider_checkers == {pos \in all_pinners : Cardinality(btw(pos)) = 0}
        slider_pinned ==
            UNION {btw(pos) : pos \in {q \in all_pinners : Cardinality(btw(q)) = 1}}
        pawn_checkers ==
            {pawn \in color_piece_board(state.board, opp_color, Pawn) :
                pawn_attacks(Not(state.to_play), pawn) \cap k_mask # {}}
        knight_checkers ==
            {knight \in color_piece_board(state.board, opp_color, Knight) :
                knight_moves(knight, Sq \ k_mask) # {}}
    IN  [state EXCEPT
            !.pinned = slider_pinned \cap color_board(state.board, our_color),
            !.checkers = slider_checkers \cup pawn_checkers \cup knight_checkers]

(***************************************************************************)
(* Moves and move sets                                                     *)
(***************************************************************************)
Move(from, to, promotion) == [from |-> from, to |-> to, promotion |-> promotion]

MoveSetChunk(source, dest_set, promotion) ==
    [source |-> source, dest_set |-> dest_set, promotion |-> promotion]

PromotionOrder == <<Queen, Rook, Bishop, Knight>>

\* The moves MoveSetChunkIter yields, in order.
MoveSetChunk_iter(chunk) ==
    LET dests == iter_set(chunk.dest_set)
    IN  IF chunk.promotion
        THEN [i \in 1 .. 4 * Len(dests) |->
                Move(chunk.source, dests[((i - 1) \div 4) + 1],
                     PromotionOrder[((i - 1) % 4) + 1])]
        ELSE [i \in 1 .. Len(dests) |-> Move(chunk.source, dests[i], None)]

MoveSetChunk_len(chunk) ==
    Cardinality(chunk.dest_set) * (IF chunk.promotion THEN 4 ELSE 1)

\* MoveSet::push keeps only chunks with a destination.
MoveSet_push(chunks) == SelectSeq(chunks, LAMBDA c : c.dest_set # {})

RECURSIVE MoveSet_len(_)
MoveSet_len(ms) ==
    IF ms = <<>> THEN 0 ELSE MoveSetChunk_len(Head(ms)) + MoveSet_len(Tail(ms))

RECURSIVE MoveSet_iter(_)
MoveSet_iter(ms) ==
    IF ms = <<>> THEN <<>> ELSE MoveSetChunk_iter(Head(ms)) \o MoveSet_iter(Tail(ms))

(***************************************************************************)
(* Pseudo-legal move generation                                            *)
(***************************************************************************)
BISHOP_DIRS == << <<-1, -1>>, <<-1, 1>>, <<1, -1>>, <<1, 1>> >>

ROOK_DIRS == << <<1, 0>>, <<-1, 0>>, <<0, 1>>, <<0, -1>> >>

\* A faulty pawn_psuedo_legal that lets a pawn on its starting rank jump over
\* a piece in front of it: C8 tells the two apart.
pawn_psuedo_legal_jumping(c, source, our_pieces, opp_pieces) ==
    MoveSetChunk(source,
                 (pawn_pushes(c, source) \ (our_pieces \cup opp_pieces))
                     \cup (pawn_attacks(c, source) \cap opp_pieces),
                 RankOf(source) = numbered_rank(c, 7))

pawn_psuedo_legal(c, source, our_pieces, opp_pieces) ==
    LET all_union == our_pieces \cup opp_pieces
        pushes ==
            IF /\ RankOf(source) = numbered_rank(c, 2)
               /\ from_file_rank(FileOf(source), numbered_rank(c, 3)) \in all_union
            THEN {}
            ELSE pawn_pushes(c, source) \ all_union
        attacks == pawn_attacks(c, source) \cap opp_pieces
    IN  MoveSetChunk(source, pushes \cup attacks, RankOf(source) = numbered_rank(c, 7))

\* One direction of the ray walk of sliding_piece_pseudo_legal, from (f, r).
RECURSIVE ray_walk(_, _, _, _, _, _)
ray_walk(f, r, dir, our_pieces, opp_pieces, acc) ==
    LET nf == f + dir[1]
        nr == r + dir[2]
        dest == from_file_rank(nf, nr)
    IN  IF nf < 0 \/ nf >= 8 THEN acc
        ELSE IF nr < 0 \/ nr >= 8 THEN acc
        ELSE IF dest \in our_pieces THEN acc
        ELSE IF dest \in opp_pieces THEN acc \cup {dest}
        ELSE ray_walk(nf, nr, dir, our_pieces, opp_pieces, acc \cup {dest})

sliding_piece_pseudo_legal(source, our_pieces, opp_pieces, dirs) ==
    MoveSetChunk(source,
        UNION {ray_walk(FileOf(source), RankOf(source), dirs[i], our_pieces, opp_pieces, {}) :
                  i \in DOMAIN dirs},
        FALSE)

pseudo_legal_moves(state, piece, source) ==
    LET c == state.to_play
        our_pieces == color_board(state.board, c)
        opp_pieces == color_board(state.board, Not(c))
    IN  CASE piece = Pawn -> pawn_psuedo_legal(c, source, our_pieces, opp_pieces)
          [] piece = Knight -> MoveSetChunk(source, knight_moves(source, our_pieces), FALSE)
          [] piece = Rook -> sliding_piece_pseudo_legal(source, our_pieces, opp_pieces, ROOK_DIRS)
          [] piece = Bishop -> sliding_piece_pseudo_legal(source, our_pieces, opp_pieces, BISHOP_DIRS)
          [] piece = King -> MoveSetChunk(source, king_moves(source, our_pieces), FALSE)
          [] piece = Queen ->
                MoveSetChunk(source,
                    sliding_piece_pseudo_legal(source, our_pieces, opp_pieces, ROOK_DIRS).dest_set
                    \cup sliding_piece_pseudo_legal(source, our_pieces, opp_pieces, BISHOP_DIRS).dest_set,
                    FALSE)

(***************************************************************************)
(* Legal move generation                                                   *)
(***************************************************************************)
\* The enemy rooks/bishops/queens that share a line with pos.
sliding_dangers(state, pos) ==
    LET opp_board == color_board(state.board, Not(state.to_play))
        rooks ==
            ((piece_board(state.board, Rook) \cup piece_board(state.board, Queen))
                \cap opp_board) \cap rook_rays(pos)
        bishops ==
            ((piece_board(state.board, Bishop) \cup piece_board(state.board, Queen))
                \cap opp_board) \cap bishop_rays(pos)
    IN  rooks \cup bishops

\* A faulty en-passant test that does not look for the sliders uncovered by
\* the capture: C18 tells the two apart.
legal_ep_move_no_discovery(state, pos) ==
    LET ep_pos == state.en_passant
        old_pawn_pos == forward(ep_pos, Not(state.to_play))
    IN  /\ ep_pos # NoPos
        /\ ep_pos \in pawn_attacks(state.to_play, pos)
        /\ state.checkers \ {old_pawn_pos} = {}

\* The en-passant part of pawn_special: TRUE when the capture is appended.
legal_ep_move(state, pos) ==
    LET ep_pos == state.en_passant
        old_pawn_pos == forward(ep_pos, Not(state.to_play))
        blockers == ((all_union_board(state.board) \cup {ep_pos}) \ {pos}) \ {old_pawn_pos}
        k_pos == king_pos(state, state.to_play)
    IN  /\ ep_pos # NoPos
        /\ ep_pos \in pawn_attacks(state.to_play, pos)
        /\ state.checkers \ {old_pawn_pos} = {}
        /\ \A danger_pos \in sliding_dangers(state, k_pos) :
              blockers \cap between(k_pos, danger_pos) # {}

pawn_special(state, pos, chunk, check_mask) ==
    [chunk EXCEPT !.dest_set =
        (@ \cap check_mask)
            \cup (IF legal_ep_move(state, pos) THEN {state.en_passant} ELSE {})]

legal_king_pos(state, pos) ==
    LET combined ==
            (all_union_board(state.board)
                \ color_piece_board(state.board, state.to_play, King)) \cup {pos}
        sliding_piece_check ==
            \E attacker_pos \in sliding_dangers(state, pos) :
                combined \cap between(pos, attacker_pos) = {}
        knight_check ==
            color_piece_board(state.board, Not(state.to_play), Knight)
                \cap knight_moves(pos, {}) # {}
        pawn_check ==
            color_piece_board(state.board, Not(state.to_play), Pawn)
                \cap pawn_attacks(state.to_play, pos) # {}
        king_check ==
            color_piece_board(state.board, Not(state.to_play), King)
                \cap king_moves(pos, {}) # {}
    IN  ~(sliding_piece_check \/ knight_check \/ pawn_check \/ king_check)

\* A faulty castling_dest that does not test the square the king passes over:
\* C10 tells the two apart.
castling_dest_through_check(state, k_pos, kingside) ==
    IF /\ CastleRights_get(state.castle_rights, state.to_play, kingside)
       /\ all_union_board(state.board)
             \cap castling_required_empty(state.to_play, kingside) = {}
    THEN LET passing == IF kingside THEN right(k_pos) ELSE left(k_pos)
             dest == IF kingside THEN right(passing) ELSE left(passing)
         IN  IF legal_king_pos(state, dest) THEN {dest} ELSE {}
    ELSE {}

\* One side of the castling part of king_special: the destination set added.
castling_dest(state, k_pos, kingside) ==
    IF /\ CastleRights_get(state.castle_rights, state.to_play, kingside)
       /\ all_union_board(state.board)
             \cap castling_required_empty(state.to_play, kingside) = {}
    THEN LET passing == IF kingside THEN right(k_pos) ELSE left(k_pos)
             dest == IF kingside THEN right(passing) ELSE left(passing)
         IN  IF legal_king_pos(state, passing) /\ legal_king_pos(state, dest)
             THEN {dest} ELSE {}
    ELSE {}

\* A faulty king_special that considers castling while in check: C17 tells
\* the two apart.
king_special_castle_in_check(state, k_pos, chunk) ==
    [chunk EXCEPT !.dest_set =
        {pos \in @ : legal_king_pos(state, pos)}
            \cup castling_dest(state, k_pos, TRUE)
            \cup castling_dest(state, k_pos, FALSE)]

king_special(state, k_pos, chunk) ==
    [chunk EXCEPT !.dest_set =
        {pos \in @ : legal_king_pos(state, pos)}
            \cup (IF state.checkers # {} THEN {}
                  ELSE castling_dest(state, k_pos, TRUE)
                          \cup castling_dest(state, k_pos, FALSE))]

\* A faulty legal_move_chunk that applies the check mask to the pawns only:
\* C14 tells the two apart.
legal_move_chunk_of_unmasked(state, piece, pos, check_mask, chunk) ==
    CASE piece = Pawn -> pawn_special(state, pos, chunk, check_mask)
      [] piece = King -> king_special(state, pos, chunk)
      [] OTHER -> chunk

\* The match of legal_move_chunk on the piece, for the pseudo-legal chunk.
legal_move_chunk_of(state, piece, pos, check_mask, chunk) ==
    CASE piece = Pawn -> pawn_special(state, pos, chunk, check_mask)
      [] piece = King -> king_special(state, pos, chunk)
      [] OTHER -> [chunk EXCEPT !.dest_set = @ \cap check_mask]

legal_move_chunk(state, piece, pos, check_mask) ==
    legal_move_chunk_of(state, piece, pos, check_mask,
                        pseudo_legal_moves(state, piece, pos))

\* The <<piece, square>> pairs of the pieces standing on mask, piece by piece
\* in Piece::all() order from the i-th and square by square in iter_set order.
RECURSIVE pieces_on(_, _, _)
pieces_on(board, mask, i) ==
    IF i > Len(PieceAll) THEN <<>>
    ELSE LET poss == iter_set(piece_board(board, PieceAll[i]) \cap mask)
         IN  [j \in 1 .. Len(poss) |-> <<PieceAll[i], poss[j]>>]
                 \o pieces_on(board, mask, i + 1)

\* A faulty loop of legal_moves that never restricts a chunk to the line
\* through the king: C16 tells the two apart.
piece_chunks_off_line(state, mask, check_mask, pin_line) ==
    LET pieces == pieces_on(state.board, mask, 1)
    IN  [i \in 1 .. Len(pieces) |->
            legal_move_chunk(state, pieces[i][1], pieces[i][2], check_mask)]

\* One of the two loops of legal_moves over the pieces on mask: their chunks,
\* restricted to the line through the king when pin_line.
piece_chunks(state, mask, check_mask, pin_line) ==
    LET k_pos == king_pos(state, state.to_play)
        pieces == pieces_on(state.board, mask, 1)
    IN  [i \in 1 .. Len(pieces) |->
            [legal_move_chunk(state, pieces[i][1], pieces[i][2], check_mask)
                EXCEPT !.dest_set =
                    IF pin_line THEN @ \cap line(pieces[i][2], k_pos) ELSE @]]

\* A faulty legal_moves that treats a double check like a single one, masking
\* with the first checker only: C15 tells the two apart.
legal_moves_single_check(state) ==
    LET k_pos == king_pos(state, state.to_play)
        check_mask ==
            IF state.checkers # {}
            THEN between(first_set(state.checkers), k_pos) \cup state.checkers
            ELSE Sq
        non_pinned_color_mask == color_board(state.board, state.to_play) \ state.pinned
    IN  MoveSet_push(
            (IF state.checkers = {}
             THEN piece_chunks(state, state.pinned, Sq, TRUE)
             ELSE <<>>)
            \o piece_chunks(state, non_pinned_color_mask, check_mask, FALSE))

legal_moves(state) ==
    LET k_pos == king_pos(state, state.to_play)
        checker_count == Cardinality(state.checkers)
        check_mask ==
            IF state.checkers # {}
            THEN between(first_set(state.checkers), k_pos) \cup state.checkers
            ELSE Sq
        non_pinned_color_mask == color_board(state.board, state.to_play) \ state.pinned
    IN  MoveSet_push(
            (IF checker_count = 0
             THEN piece_chunks(state, state.pinned, Sq, TRUE)
             ELSE <<>>)
            \o (IF checker_count <= 1
                THEN piece_chunks(state, non_pinned_color_mask, check_mask, FALSE)
                ELSE <<legal_move_chunk(state, King, king_pos(state, state.to_play), Sq)>>))

(***************************************************************************)
(* Move application                                                        *)
(***************************************************************************)
\* A faulty apply_castling that always moves the rook of the h file: C22
\* tells the two apart.
apply_castling_kingside(board, to_play, m) ==
    xor_inplace(board, to_play, Rook,
                IF to_play = White THEN {H1} \cup {F1} ELSE {H8} \cup {F8})

apply_castling(board, to_play, m) ==
    LET kingside == FileOf(m.to) = 6
        from == IF to_play = White THEN (IF kingside THEN H1 ELSE A1)
                ELSE (IF kingside THEN H8 ELSE A8)
        to == IF to_play = White THEN (IF kingside THEN F1 ELSE D1)
              ELSE (IF kingside THEN F8 ELSE D8)
    IN  xor_inplace(board, to_play, Rook, {from} \cup {to})

\* A faulty update_castling_rights that overlooks the capture of a rook: C19
\* tells the two apart.
update_castling_rights_no_capture(rights, to_play, m, piece, capture_piece) ==
    LET r1 == IF piece = King
              THEN (IF to_play = White THEN rights \ ALL_WHITE ELSE rights \ ALL_BLACK)
              ELSE rights
    IN  IF piece = Rook
        THEN (IF to_play = White
              THEN (IF m.from = A1 THEN r1 \ {WHITE_QUEENSIDE}
                    ELSE IF m.from = H1 THEN r1 \ {WHITE_KINGSIDE} ELSE r1)
              ELSE (IF m.from = A8 THEN r1 \ {BLACK_QUEENSIDE}
                    ELSE IF m.from = H8 THEN r1 \ {BLACK_KINGSIDE} ELSE r1))
        ELSE r1

\* A faulty update_castling_rights that overlooks the move of a rook off its
\* corner: C37 tells the two apart.
update_castling_rights_no_rook_move(rights, to_play, m, piece, capture_piece) ==
    LET r1 == IF piece = King
              THEN (IF to_play = White THEN rights \ ALL_WHITE ELSE rights \ ALL_BLACK)
              ELSE rights
    IN  IF capture_piece = Rook
        THEN (IF Not(to_play) = White
              THEN (IF m.to = A1 THEN r1 \ {WHITE_QUEENSIDE}
                    ELSE IF m.to = H1 THEN r1 \ {WHITE_KINGSIDE} ELSE r1)
              ELSE (IF m.to = A8 THEN r1 \ {BLACK_QUEENSIDE}
                    ELSE IF m.to = H8 THEN r1 \ {BLACK_KINGSIDE} ELSE r1))
        ELSE r1

update_castling_rights(rights, to_play, m, piece, capture_piece) ==
    LET r1 == IF piece = King
              THEN (IF to_play = White THEN rights \ ALL_WHITE ELSE rights \ ALL_BLACK)
              ELSE rights
        r2 == IF piece = Rook
              THEN (IF to_play = White
                    THEN (IF m.from = A1 THEN r1 \ {WHITE_QUEENSIDE}
                          ELSE IF m.from = H1 THEN r1 \ {WHITE_KINGSIDE} ELSE r1)
                    ELSE (IF m.from = A8 THEN r1 \ {BLACK_QUEENSIDE}
                          ELSE IF m.from = H8 THEN r1 \ {BLACK_KINGSIDE} ELSE r1))
              ELSE r1
    IN  IF capture_piece = Rook
        THEN (IF Not(to_play) = White
              THEN (IF m.to = A1 THEN r2 \ {WHITE_QUEENSIDE}
                    ELSE IF m.to = H1 THEN r2 \ {WHITE_KINGSIDE} ELSE r2)
              ELSE (IF m.to = A8 THEN r2 \ {BLACK_QUEENSIDE}
                    ELSE IF m.to = H8 THEN r2 \ {BLACK_KINGSIDE} ELSE r2))
        ELSE r2

\* State::apply_move.  The result is Panic when an expect() fails: no piece on
\* the source square, or (in recompute_pins_and_checks) no king of the side
\* that is to move next.
apply_move(state, m) ==
    LET our_color == state.to_play
        opp_color == Not(state.to_play)
        move_bb == {m.from} \cup {m.to}
        moved == Board_get(state.board, m.from)
        piece == moved[2]
        captured == Board_get(state.board, m.to)
        capture_piece == IF captured = None THEN None ELSE captured[2]
        ep_pawn_pos ==
            IF opp_color = White THEN from_file_rank(FileOf(m.to), 3)
            ELSE from_file_rank(FileOf(m.to), 4)
        \* The changes to next_state.board, in the order they are made.
        take(board) ==
            IF capture_piece # None
            THEN xor_inplace(board, opp_color, capture_piece, {m.to})
            ELSE board
        move(board) == xor_inplace(board, our_color, piece, move_bb)
        take_en_passant(board) ==
            IF state.en_passant = m.to /\ piece = Pawn
            THEN Board_clear(board, opp_color, Pawn, ep_pawn_pos)
            ELSE board
        castle(board) ==
            IF piece = King /\ (move_bb \cap castling_moves_all) = move_bb
            THEN apply_castling(board, our_color, m)
            ELSE board
        promote(board) ==
            IF m.promotion # None
            THEN Board_set(Board_clear(board, our_color, Pawn, m.to),
                           our_color, m.promotion, m.to)
            ELSE board
        next_state(board) ==
            [to_play |-> opp_color,
             castle_rights |->
                update_castling_rights(state.castle_rights, our_color, m, piece,
                                       capture_piece),
             en_passant |->
                IF piece = Pawn /\ (move_bb \cap double_pawn_moves(our_color)) = move_bb
                THEN from_file_rank(FileOf(m.from), IF our_color = White THEN 2 ELSE 5)
                ELSE NoPos,
             halfmove_clock |->
                IF capture_piece # None \/ piece = Pawn THEN 0
                ELSE (state.halfmove_clock + 1) % 256,
             fullmove_counter |->
                IF our_color = Black THEN (state.fullmove_counter + 1) % 65536
                ELSE state.fullmove_counter,
             board |-> board,
             pinned |-> {},
             checkers |-> {}]
        checked(next) ==
            IF Board_king_pos(next.board, opp_color) = NoPos THEN Panic
            ELSE recompute_pins_and_checks(next)
    IN  IF moved = None THEN Panic
        ELSE checked(next_state(
                promote(castle(take_en_passant(move(take(state.board)))))))

(***************************************************************************)
(* FEN parsing.  A string is the sequence of its characters.               *)
(***************************************************************************)
Err(kind) == [err |-> kind]

IsErr(x) == "err" \in DOMAIN x

DigitChars == <<"0", "1", "2", "3", "4", "5", "6", "7", "8", "9">>

is_ascii_digit(sym) == \E i \in DOMAIN DigitChars : DigitChars[i] = sym

to_digit(sym) == (CHOOSE i \in DOMAIN DigitChars : DigitChars[i] = sym) - 1

PieceSymbols ==
    [p |-> [color |-> Black, piece |-> Pawn], r |-> [color |-> Black, piece |-> Rook], n |-> [color |-> Black, piece |-> Knight],
     b |-> [color |-> Black, piece |-> Bishop], k |-> [color |-> Black, piece |-> King], q |-> [color |-> Black, piece |-> Queen],
     P |-> [color |-> White, piece |-> Pawn], R |-> [color |-> White, piece |-> Rook], N |-> [color |-> White, piece |-> Knight],
     B |-> [color |-> White, piece |-> Bishop], K |-> [color |-> White, piece |-> King], Q |-> [color |-> White, piece |-> Queen]]

parse_piece_symbol(symbol) ==
    IF symbol \in DOMAIN PieceSymbols THEN PieceSymbols[symbol]
    ELSE Err("InvalidPieceChar")

FEN_RANKS == <<7, 6, 5, 4, 3, 2, 1, 0>>

FEN_FILES == <<0, 1, 2, 3, 4, 5, 6, 7>>

\* str.split(sep): the fields of str, at least one.
RECURSIVE split(_, _)
split(str, sep) ==
    IF \A i \in DOMAIN str : str[i] # sep THEN <<str>>
    ELSE LET i == CHOOSE j \in DOMAIN str :
                    str[j] = sep /\ \A h \in 1 .. j - 1 : str[h] # sep
         IN  <<SubSeq(str, 1, i - 1)>> \o split(SubSeq(str, i + 1, Len(str)), sep)

\* str.splitn(n, sep): at most n fields, the last one holding the remainder.
RECURSIVE splitn(_, _, _)
splitn(n, str, sep) ==
    IF n <= 1 \/ \A i \in DOMAIN str : str[i] # sep THEN <<str>>
    ELSE LET i == CHOOSE j \in DOMAIN str :
                    str[j] = sep /\ \A h \in 1 .. j - 1 : str[h] # sep
         IN  <<SubSeq(str, 1, i - 1)>> \o splitn(n - 1, SubSeq(str, i + 1, Len(str)), sep)

\* The loop over the characters of one rank; files_used counts the calls of
\* files.next() so far (the iterator is exhausted from 8 on).
RECURSIVE parse_fen_rank(_, _, _, _)
parse_fen_rank(rank_str, files_used, r, board) ==
    IF rank_str = <<>> THEN board
    ELSE LET sym == Head(rank_str)
         IN  IF is_ascii_digit(sym)
             THEN parse_fen_rank(Tail(rank_str), files_used + to_digit(sym), r, board)
             ELSE IF IsErr(parse_piece_symbol(sym)) THEN parse_piece_symbol(sym)
             ELSE IF files_used >= 8 THEN Err("TooLargeRank")
             ELSE parse_fen_rank(Tail(rank_str), files_used + 1, r,
                      add_piece(board, from_file_rank(FEN_FILES[files_used + 1], r),
                                parse_piece_symbol(sym).color, parse_piece_symbol(sym).piece))

RECURSIVE parse_fen_ranks(_, _, _)
parse_fen_ranks(rank_strs, i, board) ==
    IF i > Len(rank_strs) \/ i > Len(FEN_RANKS) THEN board
    ELSE LET b == parse_fen_rank(rank_strs[i], 0, FEN_RANKS[i], board)
         IN  IF IsErr(b) THEN b ELSE parse_fen_ranks(rank_strs, i + 1, b)

parse_fen_placements(placement_str, board) ==
    parse_fen_ranks(splitn(8, placement_str, "/"), 1, board)

FileChars == <<"a", "b", "c", "d", "e", "f", "g", "h">>

RankChars == <<"1", "2", "3", "4", "5", "6", "7", "8">>

\* BoardPos::from_algebraic reads the first two characters only.
from_algebraic(str) ==
    IF Len(str) < 2 THEN NoPos
    ELSE IF ~ \E i \in 1 .. 8 : FileChars[i] = str[1] THEN NoPos
    ELSE IF ~ \E i \in 1 .. 8 : RankChars[i] = str[2] THEN NoPos
    ELSE from_file_rank((CHOOSE i \in 1 .. 8 : FileChars[i] = str[1]) - 1,
                        (CHOOSE i \in 1 .. 8 : RankChars[i] = str[2]) - 1)

RECURSIVE digits_value(_, _)
digits_value(str, acc) ==
    IF str = <<>> THEN acc ELSE digits_value(Tail(str), acc * 10 + to_digit(Head(str)))

\* str.parse::<uN>() with maximum max: an optional '+', then digits.
parse_number(str, max) ==
    LET body == IF str # <<>> /\ Head(str) = "+" THEN Tail(str) ELSE str
    IN  IF body = <<>> \/ \E i \in DOMAIN body : ~is_ascii_digit(body[i])
        THEN Err("InvalidNumber")
        ELSE IF digits_value(body, 0) > max THEN Err("InvalidNumber")
        ELSE [ok |-> digits_value(body, 0)]

CastleChars == {WHITE_KINGSIDE, WHITE_QUEENSIDE, BLACK_KINGSIDE, BLACK_QUEENSIDE}

parse_fen(fen_str) ==
    LET fields == split(fen_str, " ")
        board == parse_fen_placements(fields[1], Board_new_empty)
        castling_str == fields[3]
        halfmove == parse_number(fields[5], 255)
        fullmove == parse_number(fields[6], 65535)
    IN  IF IsErr(board) THEN board
        ELSE IF Len(fields) < 2 \/ fields[2] = <<>> THEN Err("MissingFields")
        ELSE IF fields[2][1] \notin {"w", "b"} THEN Err("InvalidColor")
        ELSE IF Len(fields) < 3 THEN Err("MissingFields")
        ELSE IF \E i \in DOMAIN castling_str : castling_str[i] \notin CastleChars \cup {"-"}
             THEN Err("InvalidCastlingRightsChar")
        ELSE IF Len(fields) < 4 THEN Err("MissingFields")
        ELSE IF Len(fields) < 5 THEN Err("MissingFields")
        ELSE IF IsErr(halfmove) THEN halfmove
        ELSE IF Len(fields) < 6 THEN Err("MissingFields")
        ELSE IF IsErr(fullmove) THEN fullmove
        ELSE IF Len(fields) > 6 THEN Err("ExcessFields")
        ELSE [to_play |-> IF fields[2][1] = "w" THEN White ELSE Black,
              castle_rights |->
                  {castling_str[i] : i \in DOMAIN castling_str} \cap CastleChars,
              en_passant |-> from_algebraic(fields[4]),
              halfmove_clock |-> halfmove.ok,
              fullmove_counter |-> fullmove.ok,
              board |-> board,
              pinned |-> {},
              checkers |-> {}]

format_piece_symbol(color, piece) ==
    CASE color = Black /\ piece = Pawn -> "p"
      [] color = Black /\ piece = Rook -> "r"
      [] color = Black /\ piece = Knight -> "n"
      [] color = Black /\ piece = Bishop -> "b"
      [] color = Black /\ piece = King -> "k"
      [] color = Black /\ piece = Queen -> "q"
      [] color = White /\ piece = Pawn -> "P"
      [] color = White /\ piece = Rook -> "R"
      [] color = White /\ piece = Knight -> "N"
      [] color = White /\ piece = Bishop -> "B"
      [] color = White /\ piece = King -> "K"
      [] color = White /\ piece = Queen -> "Q"

\* format!("{}", n) of an unsigned number: its decimal digits.
RECURSIVE format_number(_)
format_number(n) ==
    IF n < 10 THEN <<DigitChars[n + 1]>>
    ELSE format_number(n \div 10) \o <<DigitChars[(n % 10) + 1]>>

\* The loop of format_fen_positions over the files of one rank, from the
\* i-th of FEN_FILES, with the count of empty squares not yet written.
RECURSIVE format_fen_rank(_, _, _, _)
format_fen_rank(state, r, i, empty_squares) ==
    IF i > Len(FEN_FILES)
    THEN IF empty_squares > 0 THEN format_number(empty_squares) ELSE <<>>
    ELSE LET found == Board_get(state.board, from_file_rank(FEN_FILES[i], r))
         IN  IF found = None
             THEN format_fen_rank(state, r, i + 1, empty_squares + 1)
             ELSE (IF empty_squares > 0 THEN format_number(empty_squares) ELSE <<>>)
                      \o <<format_piece_symbol(found[1], found[2])>>
                      \o format_fen_rank(state, r, i + 1, 0)

\* format_fen_positions from the i-th of FEN_RANKS.
RECURSIVE format_fen_ranks(_, _)
format_fen_ranks(state, i) ==
    IF i > Len(FEN_RANKS) THEN <<>>
    ELSE format_fen_rank(state, FEN_RANKS[i], 1, 0)
            \o (IF FEN_RANKS[i] # FEN_RANKS[Len(FEN_RANKS)] THEN <<"/">> ELSE <<>>)
            \o format_fen_ranks(state, i + 1)

format_fen_positions(state) == format_fen_ranks(state, 1)

to_algebraic(pos) == <<FileChars[FileOf(pos) + 1], RankChars[RankOf(pos) + 1]>>

\* What format_fen writes after the placements.
format_fen_fields(state) ==
    (IF state.to_play = White THEN <<" ", "w", " ">> ELSE <<" ", "b", " ">>)
        \o (IF WHITE_KINGSIDE \in state.castle_rights THEN <<"K">> ELSE <<>>)
        \o (IF WHITE_QUEENSIDE \in state.castle_rights THEN <<"Q">> ELSE <<>>)
        \o (IF BLACK_KINGSIDE \in state.castle_rights THEN <<"k">> ELSE <<>>)
        \o (IF BLACK_QUEENSIDE \in state.castle_rights THEN <<"q">> ELSE <<>>)
        \o (IF state.castle_rights = {} THEN <<"-">> ELSE <<>>)
        \o (IF state.en_passant # NoPos THEN <<" ">> \o to_algebraic(state.en_passant)
            ELSE <<" ", "-">>)
        \o <<" ">> \o format_number(state.halfmove_clock)
        \o <<" ">> \o format_number(state.fullmove_counter)

\* A faulty format_fen that always writes "-" for the en-passant square: C29
\* tells the two apart.
format_fen_lost_en_passant(state) ==
    format_fen_positions(state) \o format_fen_fields([state EXCEPT !.en_passant = NoPos])

format_fen(state) == format_fen_positions(state) \o format_fen_fields(state)

FEN_START ==
    <<"r", "n", "b", "q", "k", "b", "n", "r", "/", "p", "p", "p", "p", "p", "p", "p", "p",
      "/", "8", "/", "8", "/", "8", "/", "8", "/", "P", "P", "P", "P", "P", "P", "P", "P",
      "/", "R", "N", "B", "Q", "K", "B", "N", "R", " ", "w", " ", "K", "Q", "k", "q", " ",
      "-", " ", "0", " ", "1">>

FEN_KIWIPETE ==
    <<"r", "3", "k", "2", "r", "/", "p", "1", "p", "p", "q", "p", "b", "1", "/", "b", "n",
      "2", "p", "n", "p", "1", "/", "3", "P", "N", "3", "/", "1", "p", "2", "P", "3", "/",
      "2", "N", "2", "Q", "1", "p", "/", "P", "P", "P", "B", "B", "P", "P", "P", "/", "R",
      "3", "K", "2", "R", " ", "w", " ", "K", "Q", "k", "q", " ", "-", " ", "0", " ", "1">>

FEN_EP_TRAP ==
    <<"8", "/", "2", "p", "5", "/", "3", "p", "4", "/", "K", "P", "5", "r", "/", "1", "R",
      "3", "p", "1", "k", "/", "8", "/", "4", "P", "1", "P", "1", "/", "8", " ", "w", " ",
      "-", " ", "-", " ", "0", " ", "1">>

FEN_PROMOTIONS ==
    <<"n", "1", "n", "5", "/", "P", "P", "P", "k", "4", "/", "8", "/", "8", "/", "8", "/",
      "8", "/", "4", "K", "p", "p", "p", "/", "5", "N", "1", "N", " ", "b", " ", "-", " ",
      "-", " ", "0", " ", "1">>

FEN_MATE_IN_ONE ==
    <<"7", "k", "/", "8", "/", "5", "K", "2", "/", "6", "Q", "1", "/", "8", "/", "8", "/",
      "8", "/", "8", " ", "w", " ", "-", " ", "-", " ", "0", " ", "1">>

FEN_CHECKMATED ==
    <<"7", "k", "/", "6", "Q", "1", "/", "5", "K", "2", "/", "8", "/", "8", "/", "8", "/",
      "8", "/", "8", " ", "b", " ", "-", " ", "-", " ", "0", " ", "1">>

FEN_STALEMATED ==
    <<"7", "k", "/", "5", "Q", "2", "/", "6", "K", "1", "/", "8", "/", "8", "/", "8", "/",
      "8", "/", "8", " ", "b", " ", "-", " ", "-", " ", "0", " ", "1">>

\* e2e4 gives check with the pawn, which f4 can capture en passant.
FEN_EP_CHECK ==
    <<"8", "/", "8", "/", "8", "/", "3", "k", "4", "/", "5", "p", "2", "/", "8", "/",
      "4", "P", "3", "/", "4", "K", "3", " ", "w", " ", "-", " ", "-", " ", "0", " ",
      "1">>

\* A move of the knight on e4 uncovers the rook on e1, and Black, who may
\* castle to either side, is in check.
FEN_DOUBLE_CHECK ==
    <<"r", "3", "k", "2", "r", "/", "2", "p", "5", "/", "8", "/", "8", "/", "4", "N",
      "3", "/", "8", "/", "8", "/", "K", "3", "R", "3", " ", "w", " ", "k", "q", " ",
      "-", " ", "0", " ", "1">>

\* The pawn on d4 is pinned by the bishop on b2; c2c4 and e2e4 offer it an
\* en-passant capture, the first one along the pin.
FEN_PINNED_EP ==
    <<"8", "/", "8", "/", "5", "k", "2", "/", "8", "/", "3", "p", "4", "/", "8", "/",
      "1", "B", "P", "1", "P", "3", "/", "7", "K", " ", "w", " ", "-", " ", "-", " ",
      "0", " ", "1">>

\* Both sides may castle to either side and each rook can capture the rook
\* in the opposite corner.
FEN_CASTLING ==
    <<"r", "3", "k", "2", "r", "/", "8", "/", "8", "/", "8", "/", "8", "/", "8", "/",
      "8", "/", "R", "3", "K", "2", "R", " ", "w", " ", "K", "Q", "k", "q", " ", "-",
      " ", "0", " ", "1">>

\* Both clocks hold the largest value of their types, u8 and u16.
FEN_CLOCKS_MAX ==
    <<"k", "7", "/", "8", "/", "8", "/", "8", "/", "8", "/", "8", "/", "8", "/", "K", "7",
      " ", "w", " ", "-", " ", "-", " ", "2", "5", "5", " ", "6", "5", "5", "3", "5">>

FEN_KINGS ==
    <<"k", "7", "/", "8", "/", "8", "/", "8", "/", "8", "/", "8", "/", "8", "/", "K", "7",
      " ", "w", " ", "-", " ", "-", " ", "0", " ", "1">>

(***************************************************************************)
(* Evaluation.  Evaluation is i32; the f32 steps of the source are taken   *)
(* in exact arithmetic and truncated toward zero as the cast does.         *)
(***************************************************************************)
I32_MAX == 2147483647

POS_INFINITY == I32_MAX - 1024

NEG_INFINITY == 0 - POS_INFINITY

trunc_div(a, b) == IF a >= 0 THEN a \div b ELSE 0 - ((0 - a) \div b)

MATE == trunc_div(NEG_INFINITY, 2)

DRAW == 0

piece_value(piece) ==
    CASE piece = Pawn -> 100
      [] piece = Rook -> 525
      [] piece = Knight -> 350
      [] piece = Bishop -> 350
      [] piece = King -> 0
      [] piece = Queen -> 1000

PAWN_SQUARE_TABLE ==
    <<0, 0, 0, 0, 0, 0, 0, 0,
      50, 50, 50, 50, 50, 50, 50, 50,
      10, 10, 20, 30, 30, 20, 10, 10,
      5, 5, 10, 25, 25, 10, 5, 5,
      0, 0, 0, 20, 20, 0, 0, 0,
      5, -5, -10, 0, 0, -10, -5, 5,
      5, 10, 10, -20, -20, 10, 10, 5,
      0, 0, 0, 0, 0, 0, 0, 0>>

KNIGHT_SQUARE_TABLE ==
    <<-50, -40, -30, -30, -30, -30, -40, -50,
      -40, -20, 0, 0, 0, 0, -20, -40,
      -30, 0, 10, 15, 15, 10, 0, -30,
      -30, 5, 15, 20, 20, 15, 5, -30,
      -30, 0, 15, 20, 20, 15, 0, -30,
      -30, 5, 10, 15, 15, 10, 5, -30,
      -40, -20, 0, 5, 5, 0, -20, -40,
      -50, -40, -30, -30, -30, -30, -40, -50>>

BISHOP_SQUARE_TABLE ==
    <<-20, -10, -10, -10, -10, -10, -10, -20,
      -10, 0, 0, 0, 0, 0, 0, -10,
      -10, 0, 5, 10, 10, 5, 0, -10,
      -10, 5, 5, 10, 10, 5, 5, -10,
      -10, 0, 10, 10, 10, 10, 0, -10,
      -10, 10, 10, 10, 10, 10, 10, -10,
      -10, 5, 0, 0, 0, 0, 5, -10,
      -20, -10, -10, -10, -10, -10, -10, -20>>

ROOK_SQUARE_TABLE ==
    <<0, 0, 0, 0, 0, 0, 0, 0,
      5, 10, 10, 10, 10, 10, 10, 5,
      -5, 0, 0, 0, 0, 0, 0, -5,
      -5, 0, 0, 0, 0, 0, 0, -5,
      -5, 0, 0, 0, 0, 0, 0, -5,
      -5, 0, 0, 0, 0, 0, 0, -5,
      -5, 0, 0, 0, 0, 0, 0, -5,
      0, 0, 0, 5, 5, 0, 0, 0>>

QUEEN_SQUARE_TABLE ==
    <<-20, -10, -10, -5, -5, -10, -10, -20,
      -10, 0, 0, 0, 0, 0, 0, -10,
      -10, 0, 5, 5, 5, 5, 0, -10,
      -5, 0, 5, 5, 5, 5, 0, -5,
      0, 0, 5, 5, 5, 5, 0, -5,
      -10, 5, 5, 5, 5, 5, 0, -10,
      -10, 0, 5, 0, 0, 0, 0, -10,
      -20, -10, -10, -5, -5, -10, -10, -20>>

NULL_SQUARE_TABLE ==
    <<0, 0, 0, 0, 0, 0, 0, 0,
      0, 0, 0, 0, 0, 0, 0, 0,
      0, 0, 0, 0, 0, 0, 0, 0,
      0, 0, 0, 0, 0, 0, 0, 0,
      0, 0, 0, 0, 0, 0, 0, 0,
      0, 0, 0, 0, 0, 0, 0, 0,
      0, 0, 0, 0, 0, 0, 0, 0,
      0, 0, 0, 0, 0, 0, 0, 0>>

CENTER_MANHATTEN_DISTANCE ==
    <<6, 5, 4, 3, 3, 4, 5, 6,
      5, 4, 3, 2, 2, 3, 4, 5,
      4, 3, 2, 1, 1, 2, 3, 4,
      3, 2, 1, 0, 0, 1, 2, 3,
      3, 2, 1, 0, 0, 1, 2, 3,
      4, 3, 2, 1, 1, 2, 3, 4,
      5, 4, 3, 2, 2, 3, 4, 5,
      6, 5, 4, 3, 3, 4, 5, 6>>

piece_square_table(piece) ==
    CASE piece = Pawn -> PAWN_SQUARE_TABLE
      [] piece = Knight -> KNIGHT_SQUARE_TABLE
      [] piece = Bishop -> BISHOP_SQUARE_TABLE
      [] piece = Rook -> ROOK_SQUARE_TABLE
      [] piece = Queen -> QUEEN_SQUARE_TABLE
      [] OTHER -> NULL_SQUARE_TABLE

center_manhatten_distance(pos) == CENTER_MANHATTEN_DISTANCE[pos + 1]

RECURSIVE seq_sum(_)
seq_sum(xs) == IF xs = <<>> THEN 0 ELSE Head(xs) + seq_sum(Tail(xs))

material_value(state, color) ==
    seq_sum([i \in 1 .. 6 |->
        Cardinality(color_piece_board(state.board, color, PieceAll[i])) * piece_value(PieceAll[i])])

piece_square_value_single(color, piece, pos) ==
    LET index == IF color = White THEN pos ELSE 63 - pos
    IN  piece_square_table(piece)[index + 1]

piece_square_value(state, color) ==
    seq_sum([i \in 1 .. 6 |->
        LET poss == iter_set(color_piece_board(state.board, color, PieceAll[i]))
        IN  seq_sum([k \in 1 .. Len(poss) |->
                piece_square_value_single(color, PieceAll[i], poss[k])])])

reference_eg_mat == piece_value(Rook) * 2 + piece_value(Bishop) + piece_value(Knight)

\* endgame_weight as the fraction <<numerator, denominator>>.
endgame_weight(state, color, mat) ==
    LET pawn_count == Cardinality(color_piece_board(state.board, color, Pawn))
        eg_mat == mat - pawn_count * piece_value(Pawn)
    IN  IF eg_mat > reference_eg_mat
        THEN <<1, 1>>
        ELSE <<reference_eg_mat - eg_mat, reference_eg_mat>>

\* The result is Panic when the opponent has no king.
push_opp_king_to_sides(state, color, weight, our_mat, opp_mat) ==
    IF our_mat < opp_mat + piece_value(Pawn) * 2 THEN 0
    ELSE LET opp_king_pos == Board_king_pos(state.board, Not(color))
         IN  IF opp_king_pos = NoPos THEN Panic
             ELSE trunc_div(center_manhatten_distance(opp_king_pos) * 10 * weight[1], weight[2])

\* 0.0 / 0.0 is NaN, which the cast takes to 0; x / 0.0 is an infinity, which
\* the cast saturates.
nonlinear_material_diff(our_mat, opp_mat) ==
    LET diff == our_mat - opp_mat
        total == our_mat + opp_mat
    IN  IF total = 0 THEN 0 ELSE trunc_div(diff * 100, total)

evaluate(state) ==
    LET our_mat == material_value(state, state.to_play)
        opp_mat == material_value(state, Not(state.to_play))
        our_pair ==
            IF Cardinality(color_piece_board(state.board, state.to_play, Bishop)) > 1
            THEN 100 ELSE 0
        opp_pair ==
            IF Cardinality(color_piece_board(state.board, Not(state.to_play), Bishop)) > 1
            THEN 100 ELSE 0
        our_eg_weight == endgame_weight(state, state.to_play, opp_mat)
        opp_eg_weight == endgame_weight(state, Not(state.to_play), opp_mat)
        our_push == push_opp_king_to_sides(state, state.to_play, our_eg_weight, our_mat, opp_mat)
        opp_push == push_opp_king_to_sides(state, Not(state.to_play), opp_eg_weight, opp_mat, our_mat)
        our_score == our_mat + nonlinear_material_diff(our_mat, opp_mat) + our_pair
                        + piece_square_value(state, state.to_play) + our_push
        opp_score == opp_mat + opp_pair + piece_square_value(state, Not(state.to_play)) + opp_push
    IN  our_score - opp_score

(***************************************************************************)
(* Zobrist hashing.  The generated 64-bit numbers are kept symbolic: a     *)
(* ZobristHash is the set of the table entries XORed into it an odd number *)
(* of times, and ^= is the symmetric difference.  Entries 0 .. 767 are     *)
(* ZOBRIST_PSC, 768 .. 783 ZOBRIST_CASTLING, 784 .. 791 ZOBRIST_EP and 792 *)
(* is ZOBRIST_WHITE_TURN.                                                  *)
(***************************************************************************)
Color_to_num(c) == IF c = White THEN 0 ELSE 1

Piece_to_num(piece) == CHOOSE i \in 0 .. 5 : PieceAll[i + 1] = piece

CastleRights_bits(rights) ==
    (IF WHITE_KINGSIDE \in rights THEN 1 ELSE 0)
        + (IF WHITE_QUEENSIDE \in rights THEN 2 ELSE 0)
        + (IF BLACK_KINGSIDE \in rights THEN 4 ELSE 0)
        + (IF BLACK_QUEENSIDE \in rights THEN 8 ELSE 0)

ZobristHash_null == {}

ZOBRIST_PSC == [idx \in 0 .. 767 |-> {idx}]

ZOBRIST_CASTLING == [cr_num \in 0 .. 15 |-> {768 + cr_num}]

ZOBRIST_EP == [f \in 0 .. 7 |-> {784 + f}]

ZOBRIST_WHITE_TURN == {792}

castling_number(castle_rights) == ZOBRIST_CASTLING[CastleRights_bits(castle_rights)]

to_play_num(to_play) == IF to_play = White THEN ZOBRIST_WHITE_TURN ELSE ZobristHash_null

piece_number(c, piece, pos) ==
    ZOBRIST_PSC[Color_to_num(c) * 6 * 64 + Piece_to_num(piece) * 64 + pos]

ep_number(ep) == IF ep # NoPos THEN ZOBRIST_EP[FileOf(ep)] ELSE ZobristHash_null

\* The XOR of the hashes in a sequence.
RECURSIVE xor_all(_)
xor_all(hashes) ==
    IF hashes = <<>> THEN ZobristHash_null ELSE xor(Head(hashes), xor_all(Tail(hashes)))

\* A faulty calculate_entire_zobrist that leaves out the en-passant file: C11
\* tells the two apart.
calculate_entire_zobrist_no_ep(state) ==
    xor(xor(castling_number(state.castle_rights), to_play_num(state.to_play)),
        {Color_to_num(c) * 6 * 64 + Piece_to_num(piece) * 64 + pos :
            <<c, piece, pos>> \in {<<c, piece, pos>> \in Color \X Piece \X Sq :
                                      pos \in color_piece_board(state.board, c, piece)}})

\* Every piece and square contributes one entry of ZOBRIST_PSC, and distinct
\* (color, piece, square) have distinct entries: the XOR over the loops is
\* the union of the entries.
calculate_entire_zobrist(state) ==
    xor(xor(xor(castling_number(state.castle_rights), to_play_num(state.to_play)),
            UNION {UNION {piece_number(cp[1], cp[2], pos) :
                             pos \in color_piece_board(state.board, cp[1], cp[2])} :
                      cp \in Color \X Piece}),
        IF state.en_passant # NoPos THEN ZOBRIST_EP[FileOf(state.en_passant)]
        ELSE ZobristHash_null)

\* The incremental update of the zobrist field by apply_move(state, m), from
\* the hash zobrist of state: the moving piece is XORed out of m.from and in
\* at m.to, a captured piece out of m.to, a pawn captured en passant out of
\* its square, the castling rook out of its corner and in next to the king,
\* a promoted pawn out and the promotion piece in, the en-passant file and
\* the castle rights of state out and those of the successor in, and the
\* side-to-move key toggled.
zobrist_update(state, m, next, zobrist) ==
    LET our_color == state.to_play
        opp_color == Not(state.to_play)
        piece == Board_get(state.board, m.from)[2]
        captured == Board_get(state.board, m.to)
        kingside == FileOf(m.to) = 6
        rook_from == IF our_color = White THEN (IF kingside THEN H1 ELSE A1)
                     ELSE (IF kingside THEN H8 ELSE A8)
        rook_to == IF our_color = White THEN (IF kingside THEN F1 ELSE D1)
                   ELSE (IF kingside THEN F8 ELSE D8)
    IN  xor_all(<<
            zobrist,
            piece_number(our_color, piece, m.from),
            piece_number(our_color, piece, m.to),
            IF captured # None THEN piece_number(opp_color, captured[2], m.to)
            ELSE ZobristHash_null,
            IF piece = Pawn /\ m.to = state.en_passant
            THEN piece_number(opp_color, Pawn, forward(m.to, opp_color))
            ELSE ZobristHash_null,
            IF piece = King /\ Abs(FileOf(m.to) - FileOf(m.from)) = 2
            THEN xor(piece_number(our_color, Rook, rook_from),
                     piece_number(our_color, Rook, rook_to))
            ELSE ZobristHash_null,
            IF m.promotion # None
            THEN xor(piece_number(our_color, Pawn, m.to),
                     piece_number(our_color, m.promotion, m.to))
            ELSE ZobristHash_null,
            xor(ep_number(state.en_passant), ep_number(next.en_passant)),
            xor(castling_number(state.castle_rights), castling_number(next.castle_rights)),
            ZOBRIST_WHITE_TURN >>)

(***************************************************************************)
(* Transposition table.  An Option is the empty sequence or a sequence of  *)
(* one element.  The table is keyed by the Zobrist hash of the state; the  *)
(* key is modelled by the components the hash is computed from.            *)
(***************************************************************************)

TranspositionTable_new_empty == [k \in {} |-> 0]

TranspositionEntry(node_type, node_value, m, depth) ==
    [node_type |-> node_type, node_value |-> node_value, m |-> m, depth |-> depth]

\* A faulty eviction loop that removes nothing: C24 tells the two apart.
TranspositionTable_evict_none(storage, max_size) == {storage}

\* The while loop of insert: the storages it can leave, one for each choice
\* of the unlucky keys.  With max_size = 0 the loop reaches an empty storage
\* and gen_range panics on the empty range: no storage is left.
RECURSIVE TranspositionTable_evict(_, _)
TranspositionTable_evict(storage, max_size) ==
    IF Cardinality(DOMAIN storage) < max_size THEN {storage}
    ELSE UNION {TranspositionTable_evict(
                    [k \in DOMAIN storage \ {unlucky_key} |-> storage[k]], max_size) :
                unlucky_key \in DOMAIN storage}

TranspositionTable_insert(storage, state, depth, node_value, node_type, m) ==
    (calculate_entire_zobrist(state) :> TranspositionEntry(node_type, node_value, m, depth))
        @@ storage

\* A faulty probe that returns an entry of any depth: C23 tells the two
\* apart.
probe_any_depth(storage, state, min_depth, alpha, beta) ==
    LET key == calculate_entire_zobrist(state)
    IN  IF key \notin DOMAIN storage THEN <<>>
        ELSE LET entry == storage[key]
             IN  CASE entry.node_type = "Exact" -> <<entry>>
                   [] entry.node_type = "UpperBound" ->
                         IF entry.node_value <= alpha THEN <<entry>> ELSE <<>>
                   [] entry.node_type = "LowerBound" ->
                         IF entry.node_value >= beta THEN <<entry>> ELSE <<>>

probe(storage, state, min_depth, alpha, beta) ==
    LET key == calculate_entire_zobrist(state)
    IN  IF key \notin DOMAIN storage THEN <<>>
        ELSE LET entry == storage[key]
             IN  IF entry.depth < min_depth THEN <<>>
                 ELSE CASE entry.node_type = "Exact" -> <<entry>>
                        [] entry.node_type = "UpperBound" ->
                              IF entry.node_value <= alpha THEN <<entry>> ELSE <<>>
                        [] entry.node_type = "LowerBound" ->
                              IF entry.node_value >= beta THEN <<entry>> ELSE <<>>

(***************************************************************************)
(* Move ordering                                                           *)
(***************************************************************************)
predicted_score(state, m, hash_move) ==
    LET piece == Board_get(state.board, m.from)[2]
        captured == Board_get(state.board, m.to)
        capture_score ==
            IF captured = None THEN 0
            ELSE piece_value(captured[2]) - piece_value(piece) + piece_value(Queen) + 10
        promotion_score == IF m.promotion = None THEN 0 ELSE piece_value(m.promotion)
        hash_score == IF hash_move = <<m>> THEN 10000 ELSE 0
    IN  capture_score + promotion_score + hash_score

\* sort_by_cached_key with Reverse keys: a stable sort, the highest score first.
RECURSIVE sort_by_score(_, _)
sort_by_score(moves, scores) ==
    IF moves = <<>> THEN <<>>
    ELSE LET best == CHOOSE x \in {scores[i] : i \in 1 .. Len(scores)} :
                        \A i \in 1 .. Len(scores) : scores[i] <= x
             idx == {i \in 1 .. Len(moves) : scores[i] = best}
             rest == {i \in 1 .. Len(moves) : scores[i] # best}
             pick(set) == SelectSeq([i \in 1 .. Len(moves) |-> i], LAMBDA i : i \in set)
             first == pick(idx)
             later == pick(rest)
         IN  [k \in 1 .. Len(first) |-> moves[first[k]]]
                \o sort_by_score([k \in 1 .. Len(later) |-> moves[later[k]]],
                                 [k \in 1 .. Len(later) |-> scores[later[k]]])

order_moves(state, moves, t) ==
    LET hit == probe(t, state, 0, POS_INFINITY, NEG_INFINITY)
        hash_move == IF hit = <<>> THEN <<>> ELSE hit[1].m
    IN  sort_by_score(moves, [i \in 1 .. Len(moves) |-> predicted_score(state, moves[i], hash_move)])

(***************************************************************************)
(* Search.  A principal variation is the sequence of its moves, the empty  *)
(* sequence when there is none.  The stop flag and the clocks are read     *)
(* where the source reads them; within one root move they keep the value   *)
(* they had when the move began.                                           *)
(***************************************************************************)
Max(a, b) == IF a >= b THEN a ELSE b

SearchResult(eval, pv, t_table) ==
    [eval |-> eval, pv |-> pv, t_table |-> t_table, failure |-> "none"]

just_eval(eval, t_table) == SearchResult(eval, <<>>, t_table)

\* A search_moves call that did not return a result: a panic in apply_move, or
\* the SendError of a perf message.
SearchFailure(kind, t_table) ==
    [eval |-> 0, pv |-> <<>>, t_table |-> t_table, failure |-> kind]

\* A faulty move_is_capture that takes every move to a square not held by
\* the mover for a capture: C38 tells the two apart.
move_is_capture_or_quiet(state, m) == m.to \notin color_board(state.board, state.to_play)

move_is_capture(state, m) == m.to \in color_board(state.board, Not(state.to_play))

\* The move list of quiescence_search: the legal captures, ordered.
quiescence_moves(state, t_table) ==
    order_moves(state,
        SelectSeq(MoveSet_iter(legal_moves(state)), LAMBDA m : move_is_capture(state, m)),
        t_table)

RECURSIVE quiescence_search(_, _, _, _)
RECURSIVE quiescence_loop(_, _, _, _, _, _)
quiescence_search(state, alpha, beta, t_table) ==
    LET root_eval == evaluate(state)
    IN  IF root_eval >= beta THEN [eval |-> beta, failure |-> "none"]
        ELSE quiescence_loop(state, quiescence_moves(state, t_table),
                             1, Max(alpha, root_eval), beta, t_table)

quiescence_loop(state, moves, i, alpha, beta, t_table) ==
    LET scored(r) ==
            IF r.failure # "none" THEN r
            ELSE IF 0 - r.eval >= beta THEN [eval |-> beta, failure |-> "none"]
            ELSE quiescence_loop(state, moves, i + 1, Max(alpha, 0 - r.eval), beta, t_table)
        searched(new_state) ==
            IF IsPanic(new_state) THEN [eval |-> 0, failure |-> "panic"]
            ELSE scored(quiescence_search(new_state, 0 - beta, 0 - alpha, t_table))
    IN  IF i > Len(moves) THEN [eval |-> alpha, failure |-> "none"]
        ELSE searched(apply_move(state, moves[i]))

\* ctl: what the searcher reads of its surroundings, [stop, over_500ms,
\* perf_due, perf_open].
should_stop(ply_from_root, max_depth, ctl) ==
    IF max_depth - ply_from_root >= 4 THEN ctl.stop
    ELSE IF ply_from_root = 0 THEN ctl.over_500ms
    ELSE FALSE

\* maybe_emit_perf_msg: TRUE when a message is sent or the send is attempted.
maybe_emit_perf_msg(ply_from_root, max_depth, ctl) ==
    max_depth - ply_from_root >= 4 /\ ctl.perf_due

NodeStart == [best_move |-> <<>>, node_type |-> "UpperBound", pv |-> <<>>]

RECURSIVE search_moves(_, _, _, _, _, _, _)
RECURSIVE search_moves_loop(_, _, _, _, _, _, _, _, _, _)
RECURSIVE search_moves_step(_, _, _, _, _, _, _, _, _)

\* The end of search_moves after its move loop: the table insert and the result.
search_moves_end(state, ply_from_root, max_depth, alpha, node, t_table) ==
    SearchResult(alpha, node.pv,
        TranspositionTable_insert(t_table, state, max_depth - ply_from_root, alpha,
                                  node.node_type, node.best_move))

\* One pass of the move loop of search_moves, for the move m.
search_moves_step(state, ply_from_root, max_depth, m, alpha, beta, node, t_table, ctl) ==
    LET stay(kind, t) == [kind |-> kind, alpha |-> alpha, node |-> node, t_table |-> t]
        after ==
            IF maybe_emit_perf_msg(ply_from_root, max_depth, ctl) /\ ~ctl.perf_open
            THEN "send_error"
            ELSE IF should_stop(ply_from_root, max_depth, ctl) THEN "break"
            ELSE "next"
        scored(result) ==
            IF result.failure # "none" THEN stay(result.failure, result.t_table)
            ELSE IF 0 - result.eval >= beta
            THEN stay("cutoff",
                    TranspositionTable_insert(result.t_table, state,
                        max_depth - ply_from_root, beta, "LowerBound", <<>>))
            ELSE IF 0 - result.eval > alpha
            THEN [kind |-> after,
                  alpha |-> 0 - result.eval,
                  node |-> [best_move |-> <<m>>, node_type |-> "Exact",
                            pv |-> <<m>> \o result.pv],
                  t_table |-> result.t_table]
            ELSE stay(after, result.t_table)
        searched(new_state) ==
            IF IsPanic(new_state) THEN stay("panic", t_table)
            ELSE scored(search_moves(new_state, ply_from_root + 1, max_depth,
                                     0 - beta, 0 - alpha, t_table, ctl))
    IN  searched(apply_move(state, m))

search_moves_loop(state, ply_from_root, max_depth, moves, i, alpha, beta, node, t_table, ctl) ==
    IF i > Len(moves)
    THEN search_moves_end(state, ply_from_root, max_depth, alpha, node, t_table)
    ELSE LET step == search_moves_step(state, ply_from_root, max_depth, moves[i],
                                       alpha, beta, node, t_table, ctl)
         IN  CASE step.kind = "next" ->
                    search_moves_loop(state, ply_from_root, max_depth, moves, i + 1,
                                      step.alpha, beta, step.node, step.t_table, ctl)
               [] step.kind = "break" ->
                    search_moves_end(state, ply_from_root, max_depth, step.alpha,
                                     step.node, step.t_table)
               [] step.kind = "cutoff" -> just_eval(beta, step.t_table)
               [] OTHER -> SearchFailure(step.kind, step.t_table)

\* The part of search_moves before its move loop: "moves" with the ordered
\* moves when the loop is to run, "return" with the result otherwise.
search_moves_begin(state, ply_from_root, max_depth, alpha, beta, t_table) ==
    LET returned(result) == [kind |-> "return", result |-> result]
        quiesced(q) ==
            returned(IF q.failure # "none" THEN SearchFailure(q.failure, t_table)
                     ELSE just_eval(q.eval, t_table))
        tt == probe(t_table, state, max_depth - ply_from_root, alpha, beta)
        ordered(moves) ==
            IF Len(moves) = 0
            THEN returned(just_eval(IF in_check(state) THEN MATE ELSE DRAW, t_table))
            ELSE [kind |-> "moves", moves |-> moves]
    IN  IF ply_from_root > max_depth
        THEN quiesced(quiescence_search(state, alpha, beta, t_table))
        ELSE IF tt # <<>> THEN returned(just_eval(tt[1].node_value, t_table))
        ELSE ordered(order_moves(state, MoveSet_iter(legal_moves(state)), t_table))

search_moves(state, ply_from_root, max_depth, alpha, beta, t_table, ctl) ==
    LET run(begin) ==
            IF begin.kind = "return" THEN begin.result
            ELSE search_moves_loop(state, ply_from_root, max_depth, begin.moves, 1,
                                   alpha, beta, NodeStart, t_table, ctl)
    IN  run(search_moves_begin(state, ply_from_root, max_depth, alpha, beta, t_table))

(***************************************************************************)
(* Bounds                                                                  *)
(***************************************************************************)
\* The number of moves played from a root position in GameSpec.
MaxPly == 2

\* The deepest iteration of a search.
MaxDepth == 2

\* The number of UCI commands the main thread handles in ServerSpec.
MaxCmds == 3

\* The max_size of the table of TableSpec.
MaxTableSize == 1

\* The deepest pass of the depth loop in DeepeningSpec.
MaxIterations == 4

\* The number of squares a destination set is drawn from in ChunkSpec.
MaxChunkDests == 4

\* The number of calls of Searcher::search on one Searcher in RepeatSpec.
MaxSearches == 2

\* The number of symbols of the rank strings that PlacementSpec enumerates.
MaxRankSyms == 3

(***************************************************************************)
(* Variables                                                               *)
(***************************************************************************)
VARIABLES
    st,             \* the current State of the game, or Panic
    prev,           \* the State the last move was applied to
    mv,             \* the last move applied
    ply,            \* the number of moves applied since the root position
    perft_fen,      \* the FEN string the enumeration starts from
    perft_depth,    \* the depth of the enumeration
    perft_stack,    \* the positions being enumerated, the deepest last
    perft_nodes,    \* perft_nodes[d]: the positions counted at depth d
    perft_status,   \* "ready", "running", "done" or "panic"
    stop,           \* the AtomicBool shared as search_stopper and controls.stop
    clock,          \* the time since last_search_start, as a ClockLevel
    perf_open,      \* perf_rx and best_move_rx have not been dropped
    cmd_q,          \* the EngineCommand channel
    best_move_q,    \* the best-move channel
    uci_out,        \* the best moves written as UciMessage::BestMove
    main,           \* the main thread, which owns the EngineServer
    eng,            \* the engine thread
    srch,           \* the Searcher and the search call in progress
    tt,             \* a TranspositionTable: its max_size and its storage
    tt_op,          \* the last operation on tt, with its arguments and result
    iter,           \* a position searched depth after depth with one table
    call            \* the last call of a library function: arguments and result

gameVars == <<st, prev, mv, ply>>

perftVars == <<perft_fen, perft_depth, perft_stack, perft_nodes, perft_status>>

engineVars == <<stop, clock, perf_open, cmd_q, best_move_q, uci_out, main, eng, srch>>

tableVars == <<tt, tt_op>>

callVars == <<iter, call>>

vars == <<gameVars, perftVars, engineVars, tableVars, callVars>>

NoMove == Move(NoPos, NoPos, None)

(***************************************************************************)
(* GameSpec: positions set from a FEN string (the UCI position command),   *)
(* then moves taken from legal_moves and applied with apply_move.          *)
(***************************************************************************)
RootFens ==
    {FEN_START, FEN_KIWIPETE, FEN_EP_TRAP, FEN_PROMOTIONS,
     FEN_EP_CHECK, FEN_DOUBLE_CHECK, FEN_PINNED_EP, FEN_CASTLING,
     FEN_CLOCKS_MAX}

GameIdle ==
    /\ st = State_new_empty
    /\ prev = State_new_empty
    /\ mv = NoMove
    /\ ply = 0

PerftIdle ==
    /\ perft_fen = <<>>
    /\ perft_depth = 0
    /\ perft_stack = <<>>
    /\ perft_nodes = <<>>
    /\ perft_status = "idle"

\* ClockLevel: 0 up to the time heuristic of the search, 1 over it and up to
\* 500 ms, 2 over 500 ms and under 4 s, 3 from 4 s.
ClockLevel == 0 .. 3

SearcherIdle ==
    [pc |-> "idle", state |-> State_new_empty, max_depth |-> 0, infinite |-> FALSE,
     depth |-> 0, last_pv |-> <<>>, t_table |-> TranspositionTable_new_empty,
     moves |-> <<>>, idx |-> 0, alpha |-> 0, node |-> NodeStart,
     result |-> [kind |-> "none", m |-> NoMove],
     completed |-> 0, completed_pv |-> <<>>, stopped |-> FALSE,
     began_stopped |-> FALSE, passed_stop |-> FALSE]

TableIdle ==
    /\ tt = [max_size |-> 0, storage |-> TranspositionTable_new_empty]
    /\ tt_op = [op |-> "none"]

CallIdle ==
    /\ iter = [depth |-> 0]
    /\ call = [op |-> "none"]

EngineIdle ==
    /\ stop = FALSE
    /\ clock = 0
    /\ perf_open = TRUE
    /\ cmd_q = <<>>
    /\ best_move_q = <<>>
    /\ uci_out = <<>>
    /\ main = [alive |-> FALSE, cmds |-> 0]
    /\ eng = [pc |-> "none", board_state |-> <<>>, handled |-> 0, sent |-> 0]
    /\ srch = SearcherIdle

GameInit ==
    /\ \E fen \in RootFens : st = parse_fen(fen)
    /\ prev = st
    /\ mv = NoMove
    /\ ply = 0
    /\ PerftIdle
    /\ EngineIdle
    /\ TableIdle
    /\ CallIdle

MakeMove ==
    /\ ply < MaxPly
    /\ ~IsPanic(st)
    /\ \E moves \in {MoveSet_iter(legal_moves(st))} :
          \E i \in 1 .. Len(moves) :
              /\ st' = apply_move(st, moves[i])
              /\ mv' = moves[i]
    /\ prev' = st
    /\ ply' = ply + 1
    /\ UNCHANGED <<perftVars, engineVars, tableVars, callVars>>

GameNext == MakeMove

GameSpec == GameInit /\ [][GameNext]_vars

(***************************************************************************)
(* PerftSpec: the depth-limited enumeration of the tree built from         *)
(* legal_moves and apply_move, depth first.  The positions at the last     *)
(* depth are counted from the length of their parent's move set, as        *)
(* count_moves_from_starting does for depth 1.                             *)
(***************************************************************************)
PerftDepths(fen) ==
    CASE fen = FEN_START -> 1 .. 4
      [] fen = FEN_EP_TRAP -> 1 .. 4
      [] fen = FEN_KIWIPETE -> 1 .. 3

PerftRoots == {FEN_START, FEN_EP_TRAP, FEN_KIWIPETE}

PerftInit ==
    /\ perft_fen \in PerftRoots
    /\ perft_depth \in PerftDepths(perft_fen)
    /\ perft_stack = <<>>
    /\ perft_nodes = [d \in 1 .. perft_depth |-> 0]
    /\ perft_status = "ready"
    /\ GameIdle
    /\ EngineIdle
    /\ TableIdle
    /\ CallIdle

\* The enumeration reaches the position `state` at depth k: its moves are
\* counted at depth k + 1 and, unless that is the last depth, the position is
\* pushed to have its moves applied.
PerftEnter(stack, state, k) ==
    \E move_set \in {legal_moves(state)} :
        /\ perft_nodes' = [perft_nodes EXCEPT ![k + 1] = @ + MoveSet_len(move_set)]
        /\ perft_stack' =
              IF k + 1 < perft_depth
              THEN Append(stack, [state |-> state, moves |-> MoveSet_iter(move_set),
                                  idx |-> 1])
              ELSE stack

PerftStart ==
    /\ perft_status = "ready"
    /\ PerftEnter(<<>>, parse_fen(perft_fen), 0)
    /\ perft_status' = IF perft_depth = 1 THEN "done" ELSE "running"
    /\ UNCHANGED <<perft_fen, perft_depth, gameVars, engineVars, tableVars, callVars>>

PerftDescend ==
    /\ perft_status = "running"
    /\ perft_stack # <<>>
    /\ LET k == Len(perft_stack)
           top == perft_stack[k]
       IN  /\ top.idx <= Len(top.moves)
           /\ \E child \in {apply_move(top.state, top.moves[top.idx])} :
              LET stack == [perft_stack EXCEPT ![k].idx = @ + 1]
              IN  IF IsPanic(child)
                  THEN /\ perft_status' = "panic"
                       /\ perft_stack' = stack
                       /\ UNCHANGED perft_nodes
                  ELSE /\ PerftEnter(stack, child, k)
                       /\ UNCHANGED perft_status
    /\ UNCHANGED <<perft_fen, perft_depth, gameVars, engineVars, tableVars, callVars>>

PerftReturn ==
    /\ perft_status = "running"
    /\ perft_stack # <<>>
    /\ LET k == Len(perft_stack)
           top == perft_stack[k]
       IN  /\ top.idx > Len(top.moves)
           /\ perft_stack' = SubSeq(perft_stack, 1, k - 1)
           /\ perft_status' = IF k = 1 THEN "done" ELSE "running"
    /\ UNCHANGED <<perft_fen, perft_depth, perft_nodes, gameVars, engineVars, tableVars, callVars>>

PerftNext == PerftStart \/ PerftDescend \/ PerftReturn

PerftSpec == PerftInit /\ [][PerftNext]_vars

(***************************************************************************)
(* Searcher::search, one step per pass of its depth loop and per root move *)
(* of search_moves at ply 0.                                               *)
(***************************************************************************)
Running == srch.pc \in {"loop", "root", "finish"}

Controls ==
    [stop |-> stop, over_500ms |-> clock >= 2, perf_due |-> clock = 3, perf_open |-> perf_open]

Returned(kind, m) == [kind |-> kind, m |-> m]

\* The start of search: the clocks and the principal variation are reset; the
\* transposition table of the Searcher is kept.
Searcher_search(searcher, state, max_depth, infinite) ==
    [searcher EXCEPT !.pc = "loop", !.state = state, !.max_depth = max_depth,
                     !.infinite = infinite, !.depth = 1, !.last_pv = <<>>,
                     !.result = Returned("none", NoMove),
                     !.completed = 0, !.completed_pv = <<>>, !.stopped = stop,
                     !.began_stopped = stop, !.passed_stop = FALSE]

\* A faulty head of the depth loop that does not read the stop flag: C27
\* tells the two apart.
SearchLoop_ignoring_stop ==
    /\ srch.pc = "loop"
    /\ IF \/ (~srch.infinite /\ srch.depth >= srch.max_depth)
          \/ (~srch.infinite /\ clock >= 1)
       THEN srch' = [srch EXCEPT !.pc = "finish"]
       ELSE /\ srch.depth <= MaxDepth
            /\ \E begin \in {search_moves_begin(srch.state, 0, srch.depth,
                                NEG_INFINITY, POS_INFINITY, srch.t_table)} :
                   IF begin.kind = "return"
                   THEN srch' = [srch EXCEPT !.pc = "panicked"]
                   ELSE srch' = [srch EXCEPT !.pc = "root", !.moves = begin.moves, !.idx = 1,
                                             !.alpha = NEG_INFINITY, !.node = NodeStart]
    /\ UNCHANGED <<stop, clock, perf_open, cmd_q, best_move_q, uci_out, main, eng>>
    /\ UNCHANGED <<gameVars, perftVars, tableVars, callVars>>

\* One pass of the head of the depth loop: a break, or the start of
\* search_moves at ply 0 for the next depth.
SearchLoop ==
    /\ srch.pc = "loop"
    /\ IF \/ (~srch.infinite /\ srch.depth >= srch.max_depth)
          \/ (~srch.infinite /\ clock >= 1)
          \/ stop
       THEN srch' = [srch EXCEPT !.pc = "finish"]
       ELSE /\ srch.depth <= MaxDepth
            /\ \E begin \in {search_moves_begin(srch.state, 0, srch.depth,
                                NEG_INFINITY, POS_INFINITY, srch.t_table)} :
                   IF begin.kind = "return"
                   THEN srch' = [srch EXCEPT !.pc = "panicked"]
                   ELSE srch' = [srch EXCEPT !.pc = "root", !.moves = begin.moves, !.idx = 1,
                                             !.alpha = NEG_INFINITY, !.node = NodeStart]
    /\ UNCHANGED <<stop, clock, perf_open, cmd_q, best_move_q, uci_out, main, eng>>
    /\ UNCHANGED <<gameVars, perftVars, tableVars, callVars>>

\* One root move of search_moves at ply 0 and, after the last one or a break,
\* the rest of the pass of the depth loop.
SearchRootMove ==
    /\ srch.pc = "root"
    /\ \E step \in {search_moves_step(srch.state, 0, srch.depth, srch.moves[srch.idx],
                        srch.alpha, POS_INFINITY, srch.node, srch.t_table, Controls)} :
       LET last == srch.idx = Len(srch.moves)
           result ==
               IF step.kind = "cutoff" THEN just_eval(POS_INFINITY, step.t_table)
               ELSE search_moves_end(srch.state, 0, srch.depth, step.alpha, step.node,
                                     step.t_table)
       IN  CASE step.kind = "next" /\ ~last ->
                  srch' = [srch EXCEPT !.idx = @ + 1, !.alpha = step.alpha,
                                       !.node = step.node, !.t_table = step.t_table,
                                       !.passed_stop = @ \/ stop]
             [] step.kind = "panic" ->
                  srch' = [srch EXCEPT !.pc = "panicked", !.t_table = step.t_table]
             [] step.kind = "send_error" ->
                  srch' = [srch EXCEPT !.pc = "returned", !.t_table = step.t_table,
                                       !.result = Returned("SendError", NoMove)]
             [] OTHER ->
                  IF result.pv = <<>>
                  THEN srch' = [srch EXCEPT !.pc = "panicked", !.t_table = result.t_table]
                  ELSE srch' = [srch EXCEPT
                            !.pc = "loop", !.t_table = result.t_table,
                            !.last_pv = result.pv, !.depth = @ + 1,
                            !.completed = IF step.kind = "next" THEN @ + 1 ELSE @,
                            !.completed_pv = IF step.kind = "next" THEN result.pv ELSE @]
    /\ UNCHANGED <<stop, clock, perf_open, cmd_q, best_move_q, uci_out, main, eng>>
    /\ UNCHANGED <<gameVars, perftVars, tableVars, callVars>>

\* After the depth loop: the last perf message, then the result.
SearchFinish ==
    /\ srch.pc = "finish"
    /\ srch' = [srch EXCEPT
            !.pc = "returned",
            !.result =
                IF ~perf_open THEN Returned("SendError", NoMove)
                ELSE IF stop THEN Returned("EarlyStop", NoMove)
                ELSE IF srch.last_pv = <<>> THEN Returned("NoMoves", NoMove)
                ELSE Returned("Ok", srch.last_pv[1])]
    /\ UNCHANGED <<stop, clock, perf_open, cmd_q, best_move_q, uci_out, main, eng>>
    /\ UNCHANGED <<gameVars, perftVars, tableVars, callVars>>

\* Time passes during a search.
Tick ==
    /\ Running
    /\ clock < 3
    /\ clock' = clock + 1
    /\ UNCHANGED <<stop, perf_open, cmd_q, best_move_q, uci_out, main, eng, srch>>
    /\ UNCHANGED <<gameVars, perftVars, tableVars, callVars>>

(***************************************************************************)
(* SearchSpec: one call of Searcher::search, on a flag that may already be *)
(* set and that another thread may set while the search runs.              *)
(***************************************************************************)
SearchInputs ==
    {[fen |-> fen, max_depth |-> d, infinite |-> inf] :
        fen \in {FEN_MATE_IN_ONE, FEN_CHECKMATED, FEN_STALEMATED, FEN_KINGS},
        d \in 1 .. MaxDepth + 1, inf \in BOOLEAN}
    \cup {[fen |-> FEN_START, max_depth |-> d, infinite |-> FALSE] : d \in 1 .. 2}

SearchInit ==
    /\ stop \in BOOLEAN
    /\ clock = 0
    /\ perf_open = TRUE
    /\ cmd_q = <<>>
    /\ best_move_q = <<>>
    /\ uci_out = <<>>
    /\ main = [alive |-> FALSE, cmds |-> 0]
    /\ eng = [pc |-> "none", board_state |-> <<>>, handled |-> 0, sent |-> 0]
    /\ \E in \in SearchInputs :
          srch = [SearcherIdle EXCEPT !.state = parse_fen(in.fen),
                                      !.max_depth = in.max_depth,
                                      !.infinite = in.infinite]
    /\ GameIdle
    /\ PerftIdle
    /\ TableIdle
    /\ CallIdle

SearchCall ==
    /\ srch.pc = "idle"
    /\ srch' = Searcher_search(srch, srch.state, srch.max_depth, srch.infinite)
    /\ clock' = 0
    /\ UNCHANGED <<stop, perf_open, cmd_q, best_move_q, uci_out, main, eng>>
    /\ UNCHANGED <<gameVars, perftVars, tableVars, callVars>>

\* Another holder of the flag stores true, as stop_search does.
SetStop ==
    /\ Running
    /\ ~stop
    /\ stop' = TRUE
    /\ srch' = [srch EXCEPT !.stopped = TRUE]
    /\ UNCHANGED <<clock, perf_open, cmd_q, best_move_q, uci_out, main, eng>>
    /\ UNCHANGED <<gameVars, perftVars, tableVars, callVars>>

SearchNext == SearchCall \/ SearchLoop \/ SearchRootMove \/ SearchFinish \/ Tick \/ SetStop

SearchSpec == SearchInit /\ [][SearchNext]_vars

(***************************************************************************)
(* ServerSpec: the UCI main loop of main.rs driving an EngineServer, and   *)
(* the engine thread that startup spawned.  The three channels are         *)
(* unbounded; a send fails when the receiving side has been dropped.       *)
(***************************************************************************)
ServerFens == {FEN_KINGS, FEN_STALEMATED}

\* The arguments of the go command: go.infinite and go.depth.
GoArgs ==
    {[infinite |-> TRUE, max_depth |-> <<>>],
     [infinite |-> FALSE, max_depth |-> <<1>>],
     [infinite |-> FALSE, max_depth |-> <<2>>]}

\* The depth searched when the go command names none.
DefaultDepth == 5

\* The engine thread still holds cmd_rx, perf_tx and best_move_tx.
EngineAlive == eng.pc \in {"recv", "search"}

EngineServer_startup ==
    /\ stop = FALSE
    /\ clock = 0
    /\ perf_open = TRUE
    /\ cmd_q = <<>>
    /\ best_move_q = <<>>
    /\ uci_out = <<>>
    /\ main = [alive |-> TRUE, cmds |-> 0]
    /\ eng = [pc |-> "recv", board_state |-> <<>>, handled |-> 0, sent |-> 0]
    /\ srch = SearcherIdle
    /\ GameIdle
    /\ PerftIdle
    /\ TableIdle
    /\ CallIdle

\* The main thread leaves its loop and the EngineServer is dropped: the flag
\* is stored true, Exit is sent, and perf_rx and best_move_rx are dropped.
EngineServer_drop ==
    /\ stop' = TRUE
    /\ cmd_q' = IF EngineAlive THEN Append(cmd_q, [type |-> "Exit"]) ELSE cmd_q
    /\ perf_open' = FALSE
    /\ main' = [alive |-> FALSE, cmds |-> main.cmds + 1]

\* handle_uci_cmd, UciCommand::Position: parse_fen, then set_state.
UciPosition ==
    /\ main.alive
    /\ main.cmds < MaxCmds
    /\ \E fen \in ServerFens :
          IF EngineAlive
          THEN /\ cmd_q' = Append(cmd_q, [type |-> "SetState", state |-> parse_fen(fen)])
               /\ main' = [main EXCEPT !.cmds = @ + 1]
               /\ UNCHANGED <<stop, perf_open>>
          ELSE EngineServer_drop
    /\ UNCHANGED <<clock, best_move_q, uci_out, eng, srch>>
    /\ UNCHANGED <<gameVars, perftVars, tableVars, callVars>>

\* handle_uci_cmd, UciCommand::Go: begin_search stores false in the flag and
\* sends BeginSearch.
UciGo ==
    /\ main.alive
    /\ main.cmds < MaxCmds
    /\ \E args \in GoArgs :
          IF EngineAlive
          THEN /\ stop' = FALSE
               /\ cmd_q' = Append(cmd_q, [type |-> "BeginSearch", args |-> args])
               /\ main' = [main EXCEPT !.cmds = @ + 1]
               /\ UNCHANGED perf_open
          ELSE EngineServer_drop
    /\ UNCHANGED <<clock, best_move_q, uci_out, eng, srch>>
    /\ UNCHANGED <<gameVars, perftVars, tableVars, callVars>>

\* handle_uci_cmd, UciCommand::Stop: stop_search stores true in the flag.
UciStop ==
    /\ main.alive
    /\ main.cmds < MaxCmds
    /\ stop' = TRUE
    /\ main' = [main EXCEPT !.cmds = @ + 1]
    /\ srch' = [srch EXCEPT !.stopped = TRUE]
    /\ UNCHANGED <<clock, perf_open, cmd_q, best_move_q, uci_out, eng>>
    /\ UNCHANGED <<gameVars, perftVars, tableVars, callVars>>

\* handle_uci_cmd, UciCommand::Quit: the loop breaks.
UciQuit ==
    /\ main.alive
    /\ main.cmds < MaxCmds
    /\ EngineServer_drop
    /\ UNCHANGED <<clock, best_move_q, uci_out, eng, srch>>
    /\ UNCHANGED <<gameVars, perftVars, tableVars, callVars>>

\* handle_engine_best_move: a move received on best_move_rx is written out.
MainBestMove ==
    /\ main.alive
    /\ best_move_q # <<>>
    /\ uci_out' = Append(uci_out, Head(best_move_q))
    /\ best_move_q' = Tail(best_move_q)
    /\ UNCHANGED <<stop, clock, perf_open, cmd_q, main, eng, srch>>
    /\ UNCHANGED <<gameVars, perftVars, tableVars, callVars>>

\* The select of the main loop on perf_rx after the engine thread has ended:
\* the receive fails and the loop is left with the error.
MainDisconnected ==
    /\ main.alive
    /\ ~EngineAlive
    /\ EngineServer_drop
    /\ UNCHANGED <<clock, best_move_q, uci_out, eng, srch>>
    /\ UNCHANGED <<gameVars, perftVars, tableVars, callVars>>

\* Engine::search_best_move up to the call of Searcher::search: NoState
\* without a board state, else a new Searcher searches the board state.
Engine_search_best_move(board_state, args) ==
    IF board_state = <<>> THEN SearcherIdle
    ELSE Searcher_search(SearcherIdle, board_state[1],
                         IF args.max_depth = <<>> THEN DefaultDepth ELSE args.max_depth[1],
                         args.infinite)

\* One pass of the command loop of engine_main_thread_inner, up to the call
\* of search_best_move.
EngRecv ==
    /\ eng.pc = "recv"
    /\ cmd_q # <<>>
    /\ cmd_q' = Tail(cmd_q)
    /\ LET cmd == Head(cmd_q)
       IN  CASE cmd.type = "SetState" ->
                  /\ eng' = [eng EXCEPT !.board_state = <<cmd.state>>]
                  /\ UNCHANGED <<srch, clock>>
             [] cmd.type = "BeginSearch" ->
                  /\ eng' = [eng EXCEPT
                            !.pc = IF eng.board_state = <<>> THEN "exited" ELSE "search",
                            !.handled = @ + 1]
                  /\ srch' = Engine_search_best_move(eng.board_state, cmd.args)
                  /\ clock' = 0
             [] cmd.type = "Exit" ->
                  /\ eng' = [eng EXCEPT !.pc = "exited"]
                  /\ UNCHANGED <<srch, clock>>
    /\ UNCHANGED <<stop, perf_open, best_move_q, uci_out, main>>
    /\ UNCHANGED <<gameVars, perftVars, tableVars, callVars>>

\* The match on the result of search_best_move: Ok is sent on best_move_tx,
\* EarlyStop continues the loop, any other error ends the thread.
EngResult ==
    /\ eng.pc = "search"
    /\ srch.pc \in {"returned", "panicked"}
    /\ srch' = [srch EXCEPT !.pc = "idle"]
    /\ CASE srch.pc = "panicked" ->
              /\ eng' = [eng EXCEPT !.pc = "panicked"]
              /\ UNCHANGED best_move_q
         [] srch.pc = "returned" /\ srch.result.kind = "Ok" /\ perf_open ->
              /\ eng' = [eng EXCEPT !.pc = "recv", !.sent = @ + 1]
              /\ best_move_q' = Append(best_move_q, srch.result.m)
         [] srch.pc = "returned" /\ srch.result.kind = "EarlyStop" ->
              /\ eng' = [eng EXCEPT !.pc = "recv"]
              /\ UNCHANGED best_move_q
         [] OTHER ->
              /\ eng' = [eng EXCEPT !.pc = "exited"]
              /\ UNCHANGED best_move_q
    /\ UNCHANGED <<stop, clock, perf_open, cmd_q, uci_out, main>>
    /\ UNCHANGED <<gameVars, perftVars, tableVars, callVars>>

ServerNext ==
    \/ UciPosition \/ UciGo \/ UciStop \/ UciQuit \/ MainBestMove \/ MainDisconnected
    \/ EngRecv \/ SearchLoop \/ SearchRootMove \/ SearchFinish \/ Tick \/ EngResult

ServerSpec == EngineServer_startup /\ [][ServerNext]_vars

(***************************************************************************)
(* TableSpec: a TranspositionTable on its own, under any sequence of       *)
(* insert, clear and probe.  new_empty fixes max_size at 100_000_000; the  *)
(* table of TableSpec is constructed with MaxTableSize instead, so that    *)
(* insert meets a full table.                                              *)
(***************************************************************************)
NodeType == {"Exact", "LowerBound", "UpperBound"}

\* The states that TableSpec stores and looks up.
TableStates == {parse_fen(fen) : fen \in {FEN_KINGS, FEN_EP_CHECK}}

TableDepths == 1 .. 2

TableValues == {0, 1}

TableAlphas == {0, 1}

TableBetas == {0, 1}

TableInit ==
    /\ tt = [max_size |-> MaxTableSize, storage |-> TranspositionTable_new_empty]
    /\ tt_op = [op |-> "new_empty"]
    /\ CallIdle
    /\ GameIdle
    /\ PerftIdle
    /\ stop = FALSE
    /\ clock = 0
    /\ perf_open = TRUE
    /\ cmd_q = <<>>
    /\ best_move_q = <<>>
    /\ uci_out = <<>>
    /\ main = [alive |-> FALSE, cmds |-> 0]
    /\ eng = [pc |-> "none", board_state |-> <<>>, handled |-> 0, sent |-> 0]
    /\ srch = SearcherIdle

\* TranspositionTable::insert: the eviction loop, then the HashMap insert.
TableInsert ==
    /\ \E state \in TableStates, depth \in TableDepths, node_value \in TableValues,
          node_type \in NodeType :
          \E kept \in TranspositionTable_evict(tt.storage, tt.max_size) :
              /\ tt' = [tt EXCEPT !.storage =
                          TranspositionTable_insert(kept, state, depth,
                                                    node_value, node_type, <<>>)]
              /\ tt_op' = [op |-> "insert",
                           len_before |-> Cardinality(DOMAIN tt.storage),
                           evicted |-> DOMAIN tt.storage \ DOMAIN kept]
    /\ UNCHANGED <<gameVars, perftVars, engineVars, callVars>>

\* TranspositionTable::clear.
TableClear ==
    /\ tt' = [tt EXCEPT !.storage = TranspositionTable_new_empty]
    /\ tt_op' = [op |-> "clear"]
    /\ UNCHANGED <<gameVars, perftVars, engineVars, callVars>>

\* TranspositionTable::probe, which leaves the table as it is.
TableProbe ==
    /\ \E state \in TableStates, min_depth \in TableDepths, alpha \in TableAlphas,
          beta \in TableBetas :
          tt_op' = [op |-> "probe", state |-> state, min_depth |-> min_depth,
                    alpha |-> alpha, beta |-> beta,
                    result |-> probe(tt.storage, state, min_depth, alpha, beta)]
    /\ UNCHANGED tt
    /\ UNCHANGED <<gameVars, perftVars, engineVars, callVars>>

TableNext == TableInsert \/ TableClear \/ TableProbe

TableSpec == TableInit /\ [][TableNext]_vars

(***************************************************************************)
(* DeepeningSpec: the depth loop of Searcher::search on its own, with no   *)
(* stop request and no clock running out, so that every pass completes:    *)
(* pass d calls search_moves at ply 0 with max_depth d and the table the   *)
(* earlier passes left.  Beside it, the same call with a table that is     *)
(* empty when the call begins.                                             *)
(***************************************************************************)
FEN_KNIGHT_PAWN ==
    <<"4", "k", "3", "/", "8", "/", "3", "K", "4", "/", "4", "N", "3", "/", "2", "P", "5",
      "/", "8", "/", "8", "/", "8", " ", "w", " ", "-", " ", "-", " ", "0", " ", "1">>

\* The positions searched: a root, and the positions one legal move from it.
DeepeningStates ==
    LET root == parse_fen(FEN_KNIGHT_PAWN)
        moves == MoveSet_iter(legal_moves(root))
    IN  {root} \cup {apply_move(root, moves[i]) : i \in 1 .. Len(moves)}

\* No stop request, no clock run out, the perf channel open.
Undisturbed == [stop |-> FALSE, over_500ms |-> FALSE, perf_due |-> FALSE, perf_open |-> TRUE]

DeepeningInit ==
    /\ \E state \in DeepeningStates :
          iter = [depth |-> 0, state |-> state, t_table |-> TranspositionTable_new_empty,
                  eval |-> 0, compared |-> FALSE, empty_eval |-> 0]
    /\ call = [op |-> "none"]
    /\ TableIdle
    /\ GameIdle
    /\ PerftIdle
    /\ stop = FALSE
    /\ clock = 0
    /\ perf_open = TRUE
    /\ cmd_q = <<>>
    /\ best_move_q = <<>>
    /\ uci_out = <<>>
    /\ main = [alive |-> FALSE, cmds |-> 0]
    /\ eng = [pc |-> "none", board_state |-> <<>>, handled |-> 0, sent |-> 0]
    /\ srch = SearcherIdle

\* One pass of the depth loop: search_moves from the root with the table of
\* the passes before.  A pass is compared before the next one begins.
DeepenPass ==
    /\ iter.depth < MaxIterations
    /\ iter.depth = 0 \/ iter.compared
    /\ \E result \in {search_moves(iter.state, 0, iter.depth + 1, NEG_INFINITY,
                                    POS_INFINITY, iter.t_table, Undisturbed)} :
          /\ result.failure = "none"
          /\ iter' = [iter EXCEPT !.depth = @ + 1, !.t_table = result.t_table,
                                  !.eval = result.eval, !.compared = FALSE,
                                  !.empty_eval = 0]
    /\ UNCHANGED call
    /\ UNCHANGED <<gameVars, perftVars, engineVars, tableVars>>

\* The call of the last pass again, its table empty at the start.
DeepenFromEmpty ==
    /\ iter.depth >= 1
    /\ ~iter.compared
    /\ \E result \in {search_moves(iter.state, 0, iter.depth, NEG_INFINITY, POS_INFINITY,
                                    TranspositionTable_new_empty, Undisturbed)} :
          /\ result.failure = "none"
          /\ iter' = [iter EXCEPT !.compared = TRUE, !.empty_eval = result.eval]
    /\ UNCHANGED call
    /\ UNCHANGED <<gameVars, perftVars, engineVars, tableVars>>

DeepeningNext == DeepenPass \/ DeepenFromEmpty

DeepeningSpec == DeepeningInit /\ [][DeepeningNext]_vars

(***************************************************************************)
(* OrderingSpec: order_moves on its own, applied to the legal moves of a   *)
(* position with a table that holds no entry for it or an entry with one   *)
(* of its legal moves as the best move.                                    *)
(***************************************************************************)
\* White can capture en passant on d6, capture the pawn on d5 with the queen,
\* promote on a8 without a capture and promote with a capture on b8.
FEN_ORDERING ==
    <<"1", "n", "2", "k", "3", "/", "P", "7", "/", "8", "/", "3", "p", "P", "3", "/", "8",
      "/", "8", "/", "8", "/", "4", "K", "2", "Q", " ", "w", " ", "-", " ", "d", "6", " ",
      "0", " ", "1">>

\* The positions whose moves are ordered: the root positions, FEN_ORDERING
\* and the positions one legal move from FEN_ORDERING.
OrderingStates ==
    LET root == parse_fen(FEN_ORDERING)
        moves == MoveSet_iter(legal_moves(root))
    IN  {parse_fen(fen) : fen \in RootFens \cup {FEN_ORDERING}}
            \cup {apply_move(root, moves[i]) : i \in 1 .. Len(moves)}

OrderingInit ==
    /\ st \in OrderingStates
    /\ prev = st
    /\ mv = NoMove
    /\ ply = 0
    /\ PerftIdle
    /\ EngineIdle
    /\ TableIdle
    /\ CallIdle

\* order_moves(state, moves, t) for the legal moves of st: the table t has
\* no entry for st, or an entry whose best move is one of them.
OrderMoves ==
    /\ \E moves \in {MoveSet_iter(legal_moves(st))} :
        \E hash_move \in {<<>>} \cup {<<moves[i]>> : i \in 1 .. Len(moves)} :
        \E t \in {IF hash_move = <<>> THEN TranspositionTable_new_empty
                   ELSE TranspositionTable_insert(TranspositionTable_new_empty, st, 1, 0,
                                                  "Exact", hash_move)} :
            call' = [op |-> "order_moves", moves |-> moves, hash_move |-> hash_move,
                     ordered |-> order_moves(st, moves, t)]
    /\ UNCHANGED iter
    /\ UNCHANGED <<gameVars, perftVars, engineVars, tableVars>>

OrderingNext == OrderMoves

OrderingSpec == OrderingInit /\ [][OrderingNext]_vars

(***************************************************************************)
(* FenSpec: format_fen applied to what parse_fen makes of a canonically    *)
(* formatted FEN string: six fields separated by one space, the ranks from *)
(* 8 to 1 with every run of empty squares written as one digit, the castle *)
(* rights in KQkq order or "-", an en-passant square or "-", and the two   *)
(* clocks in decimal without a sign or leading zeros.                      *)
(***************************************************************************)
FenPlacements ==
    {split(fen, " ")[1] : fen \in RootFens \cup {FEN_KINGS, FEN_ORDERING}}

FenColors == {<<"w">>, <<"b">>}

FenCastleRights ==
    {IF rights = {} THEN <<"-">>
     ELSE SelectSeq(<<"K", "Q", "k", "q">>, LAMBDA c : c \in rights) :
        rights \in SUBSET CastleChars}

FenEnPassants ==
    {<<"-">>} \cup {<<FileChars[f], r>> : f \in 1 .. 8, r \in {"3", "6"}}

FenHalfmoveClocks == {<<"0">>, <<"1", "0">>, <<"2", "5", "5">>}

FenFullmoveCounters == {<<"1">>, <<"1", "0", "0">>, <<"6", "5", "5", "3", "5">>}

CanonicalFens ==
    {placement \o <<" ">> \o color \o <<" ">> \o rights \o <<" ">> \o ep
        \o <<" ">> \o halfmove \o <<" ">> \o fullmove :
        placement \in FenPlacements, color \in FenColors, rights \in FenCastleRights,
        ep \in FenEnPassants, halfmove \in FenHalfmoveClocks,
        fullmove \in FenFullmoveCounters}

FenInit ==
    /\ \E x \in CanonicalFens : call = [op |-> "fen", x |-> x]
    /\ iter = [depth |-> 0]
    /\ GameIdle
    /\ PerftIdle
    /\ EngineIdle
    /\ TableIdle

\* parse_fen(x), and format_fen of the State when there is one.
FenRoundTrip ==
    /\ call.op = "fen"
    /\ \E parsed \in {parse_fen(call.x)} :
          call' = [op |-> "round_trip", x |-> call.x, parsed |-> parsed,
                   formatted |-> IF IsErr(parsed) THEN <<>> ELSE format_fen(parsed)]
    /\ UNCHANGED iter
    /\ UNCHANGED <<gameVars, perftVars, engineVars, tableVars>>

FenNext == FenRoundTrip

FenSpec == FenInit /\ [][FenNext]_vars

(***************************************************************************)
(* MaskSpec: masks::between looked up for a pair of squares, in both       *)
(* orders.                                                                 *)
(***************************************************************************)
MaskInit ==
    /\ \E a \in Sq, b \in Sq : call = [op |-> "squares", a |-> a, b |-> b]
    /\ iter = [depth |-> 0]
    /\ GameIdle
    /\ PerftIdle
    /\ EngineIdle
    /\ TableIdle

MaskBetween ==
    /\ call.op = "squares"
    /\ call' = [op |-> "between", a |-> call.a, b |-> call.b,
                ab |-> between(call.a, call.b), ba |-> between(call.b, call.a)]
    /\ UNCHANGED iter
    /\ UNCHANGED <<gameVars, perftVars, engineVars, tableVars>>

MaskNext == MaskBetween

MaskSpec == MaskInit /\ [][MaskNext]_vars

(***************************************************************************)
(* CoordSpec: a BoardPos as the struct of its rank and file, converted to  *)
(* its bitboard offset and back.                                           *)
(***************************************************************************)
Rank == {"R1", "R2", "R3", "R4", "R5", "R6", "R7", "R8"}

Rank_to_num(self) ==
    CASE self = "R1" -> 0
      [] self = "R2" -> 1
      [] self = "R3" -> 2
      [] self = "R4" -> 3
      [] self = "R5" -> 4
      [] self = "R6" -> 5
      [] self = "R7" -> 6
      [] self = "R8" -> 7

Rank_from_num(num) ==
    CASE num = 0 -> "R1"
      [] num = 1 -> "R2"
      [] num = 2 -> "R3"
      [] num = 3 -> "R4"
      [] num = 4 -> "R5"
      [] num = 5 -> "R6"
      [] num = 6 -> "R7"
      [] num = 7 -> "R8"
      [] OTHER -> Panic

File == {"A", "B", "C", "D", "E", "F", "G", "H"}

File_to_num(self) ==
    CASE self = "A" -> 0
      [] self = "B" -> 1
      [] self = "C" -> 2
      [] self = "D" -> 3
      [] self = "E" -> 4
      [] self = "F" -> 5
      [] self = "G" -> 6
      [] self = "H" -> 7

File_from_num(num) ==
    CASE num = 0 -> "A"
      [] num = 1 -> "B"
      [] num = 2 -> "C"
      [] num = 3 -> "D"
      [] num = 4 -> "E"
      [] num = 5 -> "F"
      [] num = 6 -> "G"
      [] num = 7 -> "H"
      [] OTHER -> Panic

BoardPos == [rank : Rank, file : File]

\* A faulty to_bitboard_offset with the rank and the file exchanged: C31
\* tells the two apart.
to_bitboard_offset_file_major(pos) ==
    (File_to_num(pos.file) * 8 + Rank_to_num(pos.rank)) % 256

\* The arithmetic is that of u8.
to_bitboard_offset(pos) ==
    (Rank_to_num(pos.rank) * 8 + File_to_num(pos.file)) % 256

\* The rank is converted first: an offset of 64 or more panics there.
from_bitboard_offset(offset) ==
    IF offset \div 8 \notin 0 .. 7 THEN Rank_from_num(offset \div 8)
    ELSE [rank |-> Rank_from_num(offset \div 8), file |-> File_from_num(offset % 8)]

CoordInit ==
    /\ \/ \E pos \in BoardPos : call = [op |-> "pos", pos |-> pos]
       \/ \E offset \in 0 .. 255 : call = [op |-> "offset", offset |-> offset]
    /\ iter = [depth |-> 0]
    /\ GameIdle
    /\ PerftIdle
    /\ EngineIdle
    /\ TableIdle

\* test_boardpos_bitoffset_roundtrips: to the offset and back.
CoordRoundTrip ==
    /\ call.op = "pos"
    /\ call' = [op |-> "to_bitboard_offset", pos |-> call.pos,
                offset |-> to_bitboard_offset(call.pos),
                pos2 |-> from_bitboard_offset(to_bitboard_offset(call.pos))]
    /\ UNCHANGED iter
    /\ UNCHANGED <<gameVars, perftVars, engineVars, tableVars>>

CoordFromOffset ==
    /\ call.op = "offset"
    /\ call' = [op |-> "from_bitboard_offset", offset |-> call.offset,
                pos |-> from_bitboard_offset(call.offset)]
    /\ UNCHANGED iter
    /\ UNCHANGED <<gameVars, perftVars, engineVars, tableVars>>

CoordNext == CoordRoundTrip \/ CoordFromOffset

CoordSpec == CoordInit /\ [][CoordNext]_vars

(***************************************************************************)
(* ChunkSpec: a MoveSetChunkIter stepped by next() until it yields None.   *)
(* The destinations are squares of the eighth rank.                        *)
(***************************************************************************)
ChunkDestSets == SUBSET {from_file_rank(f, 7) : f \in 0 .. MaxChunkDests - 1}

\* MoveSetChunk::iter
MoveSetChunkIter(chunk) == [inner |-> chunk, promotion_idx |-> 0]

\* A faulty next that clears the destination with the bishop promotion and
\* never reaches the knight: C32 tells the two apart.
MoveSetChunkIter_next_no_knight(it) ==
    LET dest == first_set(it.inner.dest_set)
        cleared == [it EXCEPT !.inner.dest_set = @ \ {dest}]
    IN  IF dest = NoPos THEN [item |-> <<>>, it |-> it]
        ELSE IF it.inner.promotion
        THEN [item |-> <<Move(it.inner.source, dest, PromotionOrder[(it.promotion_idx % 3) + 1])>>,
              it |-> [(IF it.promotion_idx % 3 = 2 THEN cleared ELSE it)
                        EXCEPT !.promotion_idx = (@ + 1) % 256]]
        ELSE [item |-> <<Move(it.inner.source, dest, None)>>, it |-> cleared]

\* MoveSetChunkIter::next: the Option it yields and the iterator it leaves.
\* promotion_idx is a u8.
MoveSetChunkIter_next(it) ==
    LET dest == first_set(it.inner.dest_set)
        cleared == [it EXCEPT !.inner.dest_set = @ \ {dest}]
    IN  IF dest = NoPos THEN [item |-> <<>>, it |-> it]
        ELSE IF it.inner.promotion
        THEN [item |-> <<Move(it.inner.source, dest, PromotionOrder[(it.promotion_idx % 4) + 1])>>,
              it |-> [(IF it.promotion_idx % 4 = 3 THEN cleared ELSE it)
                        EXCEPT !.promotion_idx = (@ + 1) % 256]]
        ELSE [item |-> <<Move(it.inner.source, dest, None)>>, it |-> cleared]

ChunkInit ==
    /\ \E source \in {from_file_rank(1, 6), from_file_rank(4, 3)},
          dest_set \in ChunkDestSets, promotion \in BOOLEAN :
          call = [op |-> "iter",
                  chunk |-> MoveSetChunk(source, dest_set, promotion),
                  it |-> MoveSetChunkIter(MoveSetChunk(source, dest_set, promotion)),
                  yielded |-> <<>>]
    /\ iter = [depth |-> 0]
    /\ GameIdle
    /\ PerftIdle
    /\ EngineIdle
    /\ TableIdle

\* One call of next() by a for loop over the iterator: the loop ends with
\* the first None.
ChunkIterNext ==
    /\ call.op = "iter"
    /\ \E step \in {MoveSetChunkIter_next(call.it)} :
          call' = [call EXCEPT !.op = IF step.item = <<>> THEN "done" ELSE "iter",
                               !.it = step.it,
                               !.yielded = @ \o step.item]
    /\ UNCHANGED iter
    /\ UNCHANGED <<gameVars, perftVars, engineVars, tableVars>>

ChunkNext == ChunkIterNext

\* The loop keeps calling next() until it is over.
ChunkSpec == ChunkInit /\ [][ChunkNext]_vars /\ WF_vars(ChunkIterNext)

(***************************************************************************)
(* StopSpec: the main loop and the engine thread from the moment the       *)
(* thread has begun the search of "go infinite" on a position; the         *)
(* commands of the main thread are counted from there.                     *)
(***************************************************************************)
StopInit ==
    /\ stop = FALSE
    /\ clock = 0
    /\ perf_open = TRUE
    /\ cmd_q = <<>>
    /\ best_move_q = <<>>
    /\ uci_out = <<>>
    /\ main = [alive |-> TRUE, cmds |-> 0]
    /\ \E fen \in ServerFens :
          /\ eng = [pc |-> "search", board_state |-> <<parse_fen(fen)>>,
                    handled |-> 1, sent |-> 0]
          /\ srch = Engine_search_best_move(<<parse_fen(fen)>>,
                                            [infinite |-> TRUE, max_depth |-> <<>>])
    /\ GameIdle
    /\ PerftIdle
    /\ TableIdle
    /\ CallIdle

StopSpec == StopInit /\ [][ServerNext]_vars

(***************************************************************************)
(* RepeatSpec: Searcher::search called again and again on one Searcher,    *)
(* with the same arguments; the stop flag stays unset and the clock under  *)
(* the thresholds of the searcher.                                         *)
(***************************************************************************)
RepeatInit ==
    /\ stop = FALSE
    /\ clock = 0
    /\ perf_open = TRUE
    /\ cmd_q = <<>>
    /\ best_move_q = <<>>
    /\ uci_out = <<>>
    /\ main = [alive |-> FALSE, cmds |-> 0]
    /\ eng = [pc |-> "none", board_state |-> <<>>, handled |-> 0, sent |-> 0]
    /\ \E in \in SearchInputs :
          srch = [SearcherIdle EXCEPT !.state = parse_fen(in.fen),
                                      !.max_depth = in.max_depth,
                                      !.infinite = in.infinite]
    /\ iter = [depth |-> 0]
    /\ call = [op |-> "search", n |-> 0]
    /\ GameIdle
    /\ PerftIdle
    /\ TableIdle

\* Searcher::search is called, for the first time or after it has returned:
\* the Searcher keeps its transposition table.
RepeatCall ==
    /\ srch.pc \in {"idle", "returned"}
    /\ call.n < MaxSearches
    /\ srch' = Searcher_search(srch, srch.state, srch.max_depth, srch.infinite)
    /\ call' = [call EXCEPT !.n = @ + 1]
    /\ UNCHANGED iter
    /\ UNCHANGED <<stop, clock, perf_open, cmd_q, best_move_q, uci_out, main, eng>>
    /\ UNCHANGED <<gameVars, perftVars, tableVars>>

RepeatNext == RepeatCall \/ SearchLoop \/ SearchRootMove \/ SearchFinish

RepeatSpec == RepeatInit /\ [][RepeatNext]_vars

(***************************************************************************)
(* QuiescenceSpec: the tree of the recursive calls of quiescence_search.   *)
(* The search calls it on positions that apply_move has made; every        *)
(* capture of its move list is followed here, the ones as well that the    *)
(* search would cut off.                                                   *)
(***************************************************************************)
QuiescenceFens ==
    {FEN_PROMOTIONS, FEN_DOUBLE_CHECK, FEN_CASTLING, FEN_EP_TRAP, FEN_ORDERING,
     FEN_PINNED_EP, FEN_MATE_IN_ONE}

QuiescenceStates ==
    UNION {LET root == parse_fen(fen)
               moves == MoveSet_iter(legal_moves(root))
           IN  {apply_move(root, moves[i]) : i \in 1 .. Len(moves)} :
           fen \in QuiescenceFens}

piece_count(state) == Cardinality(all_union_board(state.board))

QuiescenceInit ==
    /\ \E state \in QuiescenceStates :
          /\ st = state
          /\ prev = state
          /\ call = [op |-> "quiescence_search", root_pieces |-> piece_count(state)]
    /\ mv = NoMove
    /\ ply = 0
    /\ iter = [depth |-> 0]
    /\ PerftIdle
    /\ EngineIdle
    /\ TableIdle

\* One recursive call of quiescence_search: a move of its list is applied and
\* the new state searched.  ply is the depth of the recursion.
QuiescenceRecurse ==
    /\ ~IsPanic(st)
    /\ \E moves \in {quiescence_moves(st, TranspositionTable_new_empty)} :
          \E i \in 1 .. Len(moves) :
              /\ st' = apply_move(st, moves[i])
              /\ mv' = moves[i]
    /\ prev' = st
    /\ ply' = ply + 1
    /\ UNCHANGED <<perftVars, engineVars, tableVars, callVars>>

QuiescenceNext == QuiescenceRecurse

QuiescenceSpec == QuiescenceInit /\ [][QuiescenceNext]_vars

(***************************************************************************)
(* PlacementSpec: parse_fen on a FEN whose first or last rank is any       *)
(* string of up to MaxRankSyms pieces and digits, or one of two nine-file  *)
(* ranks made of pawns.                                                    *)
(***************************************************************************)
RankSyms == {"p", "K", "1", "4", "8", "9"}

RankStrs ==
    UNION {[1 .. n -> RankSyms] : n \in 1 .. MaxRankSyms}
        \cup {<<"p", "p", "p", "p", "p", "p", "p", "p", "1">>,
              <<"p", "p", "p", "p", "p", "p", "p", "p", "p">>}

EmptyRanks == <<"8", "/", "8", "/", "8", "/", "8", "/", "8", "/", "8", "/", "8">>

FenTail == <<" ", "w", " ", "-", " ", "-", " ", "0", " ", "1">>

\* The number of files a rank describes: one for a piece letter, its value
\* for a digit.
RECURSIVE files_described(_)
files_described(rank_str) ==
    IF rank_str = <<>> THEN 0
    ELSE (IF is_ascii_digit(Head(rank_str)) THEN to_digit(Head(rank_str)) ELSE 1)
            + files_described(Tail(rank_str))

PlacementInit ==
    /\ \E rank_str \in RankStrs, first \in BOOLEAN :
          call = [op |-> "fen", rank_str |-> rank_str,
                  x |-> IF first THEN rank_str \o <<"/">> \o EmptyRanks \o FenTail
                        ELSE EmptyRanks \o <<"/">> \o rank_str \o FenTail]
    /\ iter = [depth |-> 0]
    /\ GameIdle
    /\ PerftIdle
    /\ EngineIdle
    /\ TableIdle

PlacementParse ==
    /\ call.op = "fen"
    /\ call' = [op |-> "parse_fen", rank_str |-> call.rank_str, x |-> call.x,
                result |-> parse_fen(call.x)]
    /\ UNCHANGED iter
    /\ UNCHANGED <<gameVars, perftVars, engineVars, tableVars>>

PlacementNext == PlacementParse

PlacementSpec == PlacementInit /\ [][PlacementNext]_vars

(***************************************************************************)
(* Chess rules, stated independently of the generator's tables: whether a  *)
(* square is attacked by a piece of the given color.                       *)
(***************************************************************************)
Sign(x) == IF x < 0 THEN 0 - 1 ELSE IF x > 0 THEN 1 ELSE 0

Segment(a, b) ==
    LET df == FileOf(b) - FileOf(a)
        dr == RankOf(b) - RankOf(a)
        n == IF Abs(df) > Abs(dr) THEN Abs(df) ELSE Abs(dr)
    IN  {from_file_rank(FileOf(a) + k * Sign(df), RankOf(a) + k * Sign(dr)) : k \in 1 .. n - 1}

Attacks(board, c, piece, from, target) ==
    LET df == FileOf(target) - FileOf(from)
        dr == RankOf(target) - RankOf(from)
        clear == Segment(from, target) \cap all_union_board(board) = {}
        straight == (df = 0 \/ dr = 0) /\ from # target /\ clear
        diag == Abs(df) = Abs(dr) /\ from # target /\ clear
    IN  CASE piece = Pawn -> Abs(df) = 1 /\ dr = (IF c = White THEN 1 ELSE 0 - 1)
          [] piece = Knight -> {Abs(df), Abs(dr)} = {1, 2}
          [] piece = King -> from # target /\ Abs(df) <= 1 /\ Abs(dr) <= 1
          [] piece = Rook -> straight
          [] piece = Bishop -> diag
          [] piece = Queen -> straight \/ diag

Attackers(board, by, target) ==
    {from \in color_board(board, by) :
        \E piece \in Piece :
            from \in piece_board(board, piece) /\ Attacks(board, by, piece, from, target)}

\* The piece of color c on from is a rook or queen on the rank or file of
\* target, or a bishop or queen on one of its diagonals.
SliderAligned(board, c, from, target) ==
    LET df == FileOf(target) - FileOf(from)
        dr == RankOf(target) - RankOf(from)
        straight == (df = 0 \/ dr = 0) /\ from # target
        diag == Abs(df) = Abs(dr) /\ from # target
    IN  \/ from \in color_piece_board(board, c, Rook) /\ straight
        \/ from \in color_piece_board(board, c, Bishop) /\ diag
        \/ from \in color_piece_board(board, c, Queen) /\ (straight \/ diag)

\* The pieces of color c that are the only occupied square strictly between
\* their king on k and an enemy slider aligned with it.
Pinned(board, c, k) ==
    {p \in color_board(board, c) :
        \E q \in color_board(board, Not(c)) :
            /\ SliderAligned(board, Not(c), q, k)
            /\ Segment(q, k) \cap all_union_board(board) = {p}}

\* x lies on the straight line through the distinct squares a and b, which
\* share a rank, a file or a diagonal.
OnLineThrough(a, b, x) ==
    LET df == FileOf(b) - FileOf(a)
        dr == RankOf(b) - RankOf(a)
    IN  /\ a # b
        /\ df = 0 \/ dr = 0 \/ Abs(df) = Abs(dr)
        /\ df * (RankOf(x) - RankOf(a)) = dr * (FileOf(x) - FileOf(a))

\* The castling move of color c to the given side: the king goes from the e
\* file to the g or c file of its home rank.
CastlingMove(c, kingside) ==
    [from |-> from_file_rank(4, IF c = White THEN 0 ELSE 7),
     to |-> from_file_rank(IF kingside THEN 6 ELSE 2, IF c = White THEN 0 ELSE 7),
     promotion |-> None]

\* The conditions of chess on castling, but for the rights: the squares
\* between the king on the e file and the rook in the corner are empty, the
\* square the king passes over and his destination are not attacked.
CastlingPathFree(board, c, kingside) ==
    LET m == CastlingMove(c, kingside)
        rook == from_file_rank(IF kingside THEN 7 ELSE 0, RankOf(m.from))
    IN  /\ Segment(m.from, rook) \cap all_union_board(board) = {}
        /\ \A pos \in Segment(m.from, m.to) \cup {m.to} :
              Attackers(board, Not(c), pos) = {}

\* The castle right that belongs to the rook of a corner square, as a set:
\* empty for every other square.
CornerRight(pos) ==
    IF pos = from_file_rank(0, 0) THEN {WHITE_QUEENSIDE}
    ELSE IF pos = from_file_rank(7, 0) THEN {WHITE_KINGSIDE}
    ELSE IF pos = from_file_rank(0, 7) THEN {BLACK_QUEENSIDE}
    ELSE IF pos = from_file_rank(7, 7) THEN {BLACK_KINGSIDE}
    ELSE {}

\* The castle rights that the move m of state has to clear.
ClearedRights(state, m) ==
    (IF m.from \in piece_board(state.board, King)
     THEN (IF state.to_play = White THEN ALL_WHITE ELSE ALL_BLACK) ELSE {})
    \cup (IF m.from \in piece_board(state.board, Rook) THEN CornerRight(m.from) ELSE {})
    \cup (IF m.to \in piece_board(state.board, Rook) THEN CornerRight(m.to) ELSE {})

\* The move m of state is a king move of two files.
IsCastling(state, m) ==
    /\ m.from \in piece_board(state.board, King)
    /\ Abs(FileOf(m.to) - FileOf(m.from)) = 2

\* The squares of the pieces of color c and kind piece after the castling
\* move m of state: the king stands on m.to, the rook of the corner beyond
\* m.to stands on the square the king passed over, everything else is where
\* it was.
AfterCastling(state, m, c, piece) ==
    LET kingside == FileOf(m.to) > FileOf(m.from)
        rook_from == from_file_rank(IF kingside THEN 7 ELSE 0, RankOf(m.from))
        rook_to == from_file_rank((FileOf(m.from) + FileOf(m.to)) \div 2, RankOf(m.from))
        before == color_piece_board(state.board, c, piece)
    IN  IF c = state.to_play /\ piece = King THEN (before \ {m.from}) \cup {m.to}
        ELSE IF c = state.to_play /\ piece = Rook
             THEN (before \ {rook_from}) \cup {rook_to}
        ELSE before

\* The moves of legal_moves(state), as a set.
LegalMoveSet(state) ==
    LET moves == MoveSet_iter(legal_moves(state))
    IN  {moves[i] : i \in 1 .. Len(moves)}

\* The move m of state is an en-passant capture.
IsEnPassant(state, m) ==
    /\ state.en_passant # NoPos
    /\ m.to = state.en_passant
    /\ m.from \in piece_board(state.board, Pawn)

\* The square of the pawn that an en-passant capture in state removes: on the
\* file of the en-passant square, on the rank the capturing pawn starts from.
EnPassantVictim(state) ==
    from_file_rank(FileOf(state.en_passant),
                   IF state.to_play = White THEN 4 ELSE 3)

\* The occupied squares after the pawn on from has captured en passant in
\* state: both pawns are gone and the capturer stands on the en-passant square.
AfterEnPassant(state, from) ==
    ((all_union_board(state.board) \ {from}) \ {EnPassantVictim(state)})
        \cup {state.en_passant}

\* The resolve-check mask of a state with the single checker c.
ResolveCheckMask(state, c) ==
    between(c, king_pos(state, state.to_play)) \cup {c}

(***************************************************************************)
(* Claims                                                                  *)
(***************************************************************************)

\* C1: for every state reached by moves from legal_moves, the move just
\* applied did not leave or put the mover's own king in check: in
\* apply_move(s, m) the king of the side that moved is attacked by no piece
\* of the side now to move.
C1_NoMoveLeavesKingInCheck ==
    ply > 0 =>
        /\ ~IsPanic(st)
        /\ Attackers(st.board, st.to_play, king_pos(st, Not(st.to_play))) = {}

\* sanity_check_board: the three board invariants.
sanity_check_board(board) ==
    /\ \A a \in Piece : \A b \in Piece :
          a # b => piece_board(board, a) \cap piece_board(board, b) = {}
    /\ color_board(board, White) \cap color_board(board, Black) = {}
    /\ UNION {piece_board(board, p) : p \in Piece}
          = color_board(board, White) \cup color_board(board, Black)

\* C2: after apply_move of any move from legal_moves (captures, en-passant,
\* castling and promotions included) the six piece bitboards are pairwise
\* disjoint, the two color bitboards are disjoint, and the union of the piece
\* bitboards equals the union of the color bitboards.
C2_BoardInvariants ==
    (ply > 0 /\ ~IsPanic(st)) => sanity_check_board(st.board)

\* Witness of C2: a pawn has just captured and promoted.
C2_Witness ==
    /\ ply > 0
    /\ ~IsPanic(st)
    /\ mv.promotion # None
    /\ mv.to \in color_board(prev.board, Not(prev.to_play))

\* The perft node counts of a FEN string, by depth, when the enumeration has
\* finished without a panic.
PerftCounts(fen, expected) ==
    perft_fen = fen =>
        /\ perft_status # "panic"
        /\ perft_status = "done" =>
              \A d \in 1 .. perft_depth : perft_nodes[d] = expected[d]

\* C8: perft from the standard starting position counts 20 positions at
\* depth 1, 400 at depth 2, 8,902 at depth 3 and 197,281 at depth 4.
C8_PerftStart == PerftCounts(FEN_START, <<20, 400, 8902, 197281>>)

\* Witness of C8: the depth-4 enumeration from the starting position is done.
C8_Witness ==
    perft_fen = FEN_START /\ perft_depth = 4 /\ perft_status = "done"

\* C9: perft from 8/2p5/3p4/KP5r/1R3p1k/8/4P1P1/8 w - - 0 1 counts 14
\* positions at depth 1, 191 at depth 2, 2,812 at depth 3 and 43,238 at
\* depth 4.
C9_PerftEpTrap == PerftCounts(FEN_EP_TRAP, <<14, 191, 2812, 43238>>)

\* C10: perft from Kiwipete counts 48 positions at depth 1, 2,039 at depth 2
\* and 97,862 at depth 3.
C10_PerftKiwipete == PerftCounts(FEN_KIWIPETE, <<48, 2039, 97862>>)

\* Witness of C10: the depth-3 enumeration from Kiwipete is done.
C10_Witness ==
    perft_fen = FEN_KIWIPETE /\ perft_depth = 3 /\ perft_status = "done"

\* C3: when the stop flag was set during a search that had completed at least
\* one depth, the search returns Ok with the first move of the principal
\* variation of the last completed depth; EarlyStop is returned only when no
\* depth completed.
C3_StopReturnsLastCompleted ==
    srch.pc = "returned" =>
        /\ srch.result.kind = "EarlyStop" => srch.completed = 0
        /\ (srch.stopped /\ srch.completed >= 1) =>
              srch.result = Returned("Ok", srch.completed_pv[1])

\* C4: from the starting position, with the stop flag never set, a
\* non-infinite search of any maximum depth d >= 1 returns Ok(m) with m one of
\* the legal moves of the starting position.
C4_StartReturnsLegalMove ==
    (/\ srch.state = parse_fen(FEN_START)
     /\ ~srch.infinite
     /\ ~srch.stopped
     /\ srch.pc \in {"returned", "panicked"})
        => /\ srch.pc = "returned"
           /\ srch.result.kind = "Ok"
           /\ \E i \in 1 .. MoveSet_len(legal_moves(srch.state)) :
                 MoveSet_iter(legal_moves(srch.state))[i] = srch.result.m

\* C5: a search of a position whose side to move has no legal move, with
\* the stop flag never set, returns the error NoMoves; it does not panic and
\* returns nothing else.
C5_NoMovesError ==
    (/\ MoveSet_len(legal_moves(srch.state)) = 0
     /\ ~srch.stopped
     /\ srch.pc \in {"returned", "panicked"})
        => /\ srch.pc = "returned"
           /\ srch.result.kind = "NoMoves"

\* C6: whenever the engine thread waits for its next command, it has sent
\* exactly one move on the best-move channel for each BeginSearch command it
\* has handled, a search ended by stop_search included.
C6_OneBestMovePerGo ==
    eng.pc = "recv" => eng.sent = eng.handled

\* C7: the stop flag is monotonic: once it is true, no step of the main
\* thread, the engine thread or the searcher writes it back to false.
C7_StopFlagMonotonic == [][stop => stop']_vars

C12_CheckersExact ==
    (ply > 0 /\ ~IsPanic(st)) =>
        /\ st.checkers =
              Attackers(st.board, Not(st.to_play), king_pos(st, st.to_play))
                  \ piece_board(st.board, King)
        /\ st.checkers \cap color_board(st.board, st.to_play) = {}

\* Witness of C12: a move has just given check with a pawn.
C12_Witness ==
    /\ ply > 0
    /\ ~IsPanic(st)
    /\ st.checkers \cap piece_board(st.board, Pawn) # {}

\* C13: after every apply_move, pinned is exactly the set of the pieces of
\* the side to move that are the only occupied square strictly between their
\* king and an enemy rook or queen on the king's rank or file, or an enemy
\* bishop or queen on one of its diagonals; it holds no enemy piece.
C13_PinnedExact ==
    (ply > 0 /\ ~IsPanic(st)) =>
        /\ st.pinned = Pinned(st.board, st.to_play, king_pos(st, st.to_play))
        /\ st.pinned \cap color_board(st.board, Not(st.to_play)) = {}

\* Witness of C13: after a move a piece of the side to move is pinned on a
\* diagonal of its king.
C13_Witness ==
    /\ ply > 0
    /\ ~IsPanic(st)
    /\ \E p \in st.pinned :
          Abs(FileOf(p) - FileOf(king_pos(st, st.to_play)))
              = Abs(RankOf(p) - RankOf(king_pos(st, st.to_play)))

C18_EnPassantOnlyIf ==
    ~IsPanic(st) =>
        \A m \in LegalMoveSet(st) :
            IsEnPassant(st, m) =>
                /\ Abs(FileOf(m.to) - FileOf(m.from)) = 1
                /\ RankOf(m.to) - RankOf(m.from) = (IF st.to_play = White THEN 1 ELSE 0 - 1)
                /\ st.checkers \subseteq {EnPassantVictim(st)}
                /\ \A q \in color_board(st.board, Not(st.to_play)) :
                      SliderAligned(st.board, Not(st.to_play), q, king_pos(st, st.to_play))
                          => Segment(q, king_pos(st, st.to_play))
                                 \cap AfterEnPassant(st, m.from) # {}

\* Witness of C18: legal_moves holds an en-passant capture while an enemy
\* slider is aligned with the king of the side to move.
C18_Witness ==
    /\ ~IsPanic(st)
    /\ \E m \in LegalMoveSet(st) : IsEnPassant(st, m)
    /\ \E q \in color_board(st.board, Not(st.to_play)) :
          SliderAligned(st.board, Not(st.to_play), q, king_pos(st, st.to_play))

\* C19: apply_move never adds a castle right and clears exactly the rights
\* that the move touches: both rights of the mover on a king move, the right
\* of the corner on a rook move from a1, h1, a8 or h8, the right of the corner
\* when a rook is captured on a1, h1, a8 or h8; every other right is kept.
C19_CastleRightsCleared ==
    (ply > 0 /\ ~IsPanic(st)) =>
        /\ st.castle_rights \subseteq prev.castle_rights
        /\ st.castle_rights = prev.castle_rights \ ClearedRights(prev, mv)

\* Witness of C19: a rook has left its corner and captured the rook of the
\* opposite corner; a right of each side was held and is cleared, a right of
\* each side is kept.
C19_Witness ==
    /\ ply > 0
    /\ ~IsPanic(st)
    /\ mv.from \in piece_board(prev.board, Rook)
    /\ mv.to \in piece_board(prev.board, Rook)
    /\ CornerRight(mv.from) \cup CornerRight(mv.to) \subseteq prev.castle_rights
    /\ Cardinality(prev.castle_rights \ st.castle_rights) = 2
    /\ Cardinality(st.castle_rights) = 2

\* C20: after apply_move the en-passant square is the square the pawn
\* skipped if and only if the move took a pawn two ranks forward; after every
\* other move there is no en-passant square.
C20_EnPassantSquare ==
    (ply > 0 /\ ~IsPanic(st)) =>
        IF /\ mv.from \in piece_board(prev.board, Pawn)
           /\ RankOf(mv.to) - RankOf(mv.from) = (IF prev.to_play = White THEN 2 ELSE 0 - 2)
        THEN /\ st.en_passant \in Segment(mv.from, mv.to)
             /\ Cardinality(Segment(mv.from, mv.to)) = 1
        ELSE st.en_passant = NoPos

\* Witness of C20: each side has just advanced a pawn two ranks, as e2e4 and
\* c7c5 do from the start, and the en-passant square went from the third rank
\* to the sixth.
C20_Witness ==
    /\ ply = 2
    /\ ~IsPanic(st)
    /\ prev.en_passant # NoPos /\ RankOf(prev.en_passant) = 2
    /\ st.en_passant # NoPos /\ RankOf(st.en_passant) = 5
    /\ st.en_passant = from_file_rank(FileOf(mv.from), 5)

\* C21: after apply_move the halfmove clock is 0 if the move was a pawn move
\* or a capture and one more than before otherwise; the fullmove counter is
\* one more than before if Black made the move and unchanged if White did;
\* the side to play is toggled.
C21_ClocksAndTurn ==
    (ply > 0 /\ ~IsPanic(st)) =>
        /\ st.halfmove_clock =
              IF \/ mv.from \in piece_board(prev.board, Pawn)
                 \/ mv.to \in all_union_board(prev.board)
              THEN 0 ELSE prev.halfmove_clock + 1
        /\ st.fullmove_counter =
              IF prev.to_play = Black THEN prev.fullmove_counter + 1
              ELSE prev.fullmove_counter
        /\ st.to_play = Not(prev.to_play)

\* C21 holds of every move made while the clock that the move increments is
\* below the largest value of its type.
C21_ClocksBelowMax ==
    (/\ ply > 0 /\ ~IsPanic(st)
     /\ prev.halfmove_clock < 255
     /\ prev.fullmove_counter < 65535) => C21_ClocksAndTurn

\* C22: applying a castling move, a king move of two files, also moves the
\* rook of that side from the h file to the f file or from the a file to the
\* d file of the same rank, and no other piece changes square.
C22_CastlingMovesRook ==
    (ply > 0 /\ ~IsPanic(st) /\ IsCastling(prev, mv)) =>
        /\ \E corner \in {A1, H1, A8, H8} :
              /\ corner \in color_piece_board(prev.board, prev.to_play, Rook)
              /\ corner \notin color_piece_board(st.board, prev.to_play, Rook)
              /\ RankOf(corner) = RankOf(mv.from)
        /\ \A c \in Color : \A piece \in Piece :
              color_piece_board(st.board, c, piece) = AfterCastling(prev, mv, c, piece)

\* Witness of C22: a king has just castled to the queenside and the rook of
\* the a file stands on the d file.
C22_Witness ==
    /\ ply > 0
    /\ ~IsPanic(st)
    /\ IsCastling(prev, mv)
    /\ FileOf(mv.to) = 2
    /\ from_file_rank(3, RankOf(mv.to)) \in piece_board(st.board, Rook)
    /\ from_file_rank(0, RankOf(mv.to)) \in piece_board(prev.board, Rook)

\* C23: probe returns an entry if and only if an entry is stored under the
\* key of the state with depth at least min_depth and its bound is Exact, or
\* UpperBound with value at most alpha, or LowerBound with value at least
\* beta; the entry returned is the stored one and every other case is a miss.
C23_ProbeHitExactly ==
    tt_op.op = "probe" =>
        LET key == calculate_entire_zobrist(tt_op.state)
            stored == key \in DOMAIN tt.storage
            usable(entry) ==
                /\ entry.depth >= tt_op.min_depth
                /\ \/ entry.node_type = "Exact"
                   \/ entry.node_type = "UpperBound" /\ entry.node_value <= tt_op.alpha
                   \/ entry.node_type = "LowerBound" /\ entry.node_value >= tt_op.beta
        IN  IF stored /\ usable(tt.storage[key])
            THEN tt_op.result = <<tt.storage[key]>>
            ELSE tt_op.result = <<>>

\* Witness of C23: probe has returned an entry deeper than min_depth whose
\* bound is UpperBound and whose value is alpha.
C23_Witness ==
    /\ tt_op.op = "probe"
    /\ tt_op.result # <<>>
    /\ tt_op.result[1].node_type = "UpperBound"
    /\ tt_op.result[1].node_value = tt_op.alpha
    /\ tt_op.result[1].depth > tt_op.min_depth

\* C24: after any sequence of insert and clear the table stores no more
\* entries than the max_size fixed at construction, and an insert that found
\* the table at max_size has evicted an entry before storing the new one.
C24_TableBounded ==
    /\ tt.max_size = MaxTableSize
    /\ Cardinality(DOMAIN tt.storage) <= tt.max_size
    /\ (tt_op.op = "insert" /\ tt_op.len_before >= tt.max_size) =>
           /\ tt_op.evicted # {}
           /\ tt_op.len_before - Cardinality(tt_op.evicted) < tt.max_size

\* Witness of C24: an insert has found the table at max_size, has evicted the
\* entry of another state and has left the table at max_size again.
C24_Witness ==
    /\ tt_op.op = "insert"
    /\ tt_op.len_before = tt.max_size
    /\ tt_op.evicted # {}
    /\ tt_op.evicted \cap DOMAIN tt.storage = {}
    /\ Cardinality(DOMAIN tt.storage) = tt.max_size

\* C25: the transposition table is only an accelerator: at every depth the
\* root evaluation of a search that uses the entries stored by the earlier
\* passes equals the root evaluation of the same search begun with an empty
\* table.
C25_TableOnlyAccelerates ==
    (iter.depth >= 1 /\ iter.compared) => iter.eval = iter.empty_eval

\* C25 up to the third pass, where no stored entry is deeper than the node
\* that meets it.
C25_EqualUpToThree ==
    (iter.depth \in 1 .. 3 /\ iter.compared) => iter.eval = iter.empty_eval

\* The fourth pass from FEN_KNIGHT_PAWN, compared with the search from an
\* empty table.
C25_Witness ==
    /\ iter.depth = 4
    /\ iter.compared
    /\ iter.state = parse_fen(FEN_KNIGHT_PAWN)

\* A move of state that captures: onto a piece of the other side, or en
\* passant.
IsCapture(state, m) ==
    \/ m.to \in color_board(state.board, Not(state.to_play))
    \/ IsEnPassant(state, m)

\* C26: of two moves of a position, neither of them the hash move, one a
\* capture (en passant included) and the other not a capture (a promotion
\* without a capture included), the capture has the strictly higher
\* predicted score and is ordered before the other.
C26_CapturesFirst ==
    call.op = "order_moves" =>
        \A i, j \in 1 .. Len(call.ordered) :
            (/\ <<call.ordered[i]>> # call.hash_move
             /\ <<call.ordered[j]>> # call.hash_move
             /\ IsCapture(st, call.ordered[i])
             /\ ~IsCapture(st, call.ordered[j]))
            => /\ predicted_score(st, call.ordered[i], call.hash_move)
                    > predicted_score(st, call.ordered[j], call.hash_move)
               /\ i < j

\* C26 for the captures of a piece standing on the destination square,
\* against the moves that neither capture nor promote.
C26_BoardCapturesBeforeQuiet ==
    call.op = "order_moves" =>
        \A i, j \in 1 .. Len(call.ordered) :
            (/\ <<call.ordered[i]>> # call.hash_move
             /\ <<call.ordered[j]>> # call.hash_move
             /\ call.ordered[i].to \in color_board(st.board, Not(st.to_play))
             /\ ~IsCapture(st, call.ordered[j])
             /\ call.ordered[j].promotion = None)
            => /\ predicted_score(st, call.ordered[i], call.hash_move)
                    > predicted_score(st, call.ordered[j], call.hash_move)
               /\ i < j

\* The moves of FEN_ORDERING ordered with no hash move: the en-passant
\* capture, the queen's capture and the promotions are among them.
C26_Witness ==
    /\ call.op = "order_moves"
    /\ call.hash_move = <<>>
    /\ st = parse_fen(FEN_ORDERING)
    /\ \E i, j \in 1 .. Len(call.ordered) :
          /\ IsEnPassant(st, call.ordered[i])
          /\ call.ordered[j].promotion # None
          /\ ~IsCapture(st, call.ordered[j])

\* C27: a search that begins with the stop flag set, the flag staying set,
\* searches no move, does not panic, and when it returns it returns the error
\* EarlyStop and no move, whatever the position, max_depth and infinite.
C27_StopSetEarlyStop ==
    srch.began_stopped =>
        /\ stop
        /\ srch.pc \in {"loop", "finish", "returned"}
        /\ srch.completed = 0
        /\ srch.pc = "returned" => srch.result = Returned("EarlyStop", NoMove)

\* An infinite search of a position with a mate in one that began with the
\* flag set has returned.
C27_Witness ==
    /\ srch.began_stopped
    /\ srch.pc = "returned"
    /\ srch.infinite
    /\ srch.state = parse_fen(FEN_MATE_IN_ONE)
    /\ srch.result.kind = "EarlyStop"

\* The legal move m of state leaves the other side in check without a legal
\* move.
DeliversMate(state, m) ==
    /\ m \in LegalMoveSet(state)
    /\ ~IsPanic(apply_move(state, m))
    /\ in_check(apply_move(state, m))
    /\ MoveSet_len(legal_moves(apply_move(state, m))) = 0

HasMatingMove(state) == \E m \in LegalMoveSet(state) : DeliversMate(state, m)

\* C28: a search, never stopped, of a position in which the side to move
\* has a move that delivers checkmate at once returns such a move, at every
\* depth from 1.
C28_MateInOneReturned ==
    (/\ srch.pc = "returned"
     /\ ~srch.stopped
     /\ srch.max_depth >= 1
     /\ HasMatingMove(srch.state))
    => /\ srch.result.kind = "Ok"
       /\ DeliversMate(srch.state, srch.result.m)

\* C28 for the searches that completed a pass of the depth loop.
C28_MateInOneAfterAPass ==
    (/\ srch.pc = "returned"
     /\ ~srch.stopped
     /\ srch.completed >= 1
     /\ HasMatingMove(srch.state))
    => /\ srch.result.kind = "Ok"
       /\ DeliversMate(srch.state, srch.result.m)

\* A search of FEN_MATE_IN_ONE with max_depth 1 has returned, never stopped.
C28_Witness ==
    /\ srch.pc = "returned"
    /\ ~srch.stopped
    /\ ~srch.infinite
    /\ srch.max_depth = 1
    /\ srch.state = parse_fen(FEN_MATE_IN_ONE)

\* C29: for every canonically formatted FEN string x, parse_fen(x) is a
\* State and format_fen(parse_fen(x)) is x again.
C29_FenRoundTrip ==
    call.op = "round_trip" =>
        /\ ~IsErr(call.parsed)
        /\ call.formatted = call.x

\* A round trip of a string with some castle rights, an en-passant square
\* and clocks of several digits.
C29_Witness ==
    /\ call.op = "round_trip"
    /\ call.formatted = call.x
    /\ call.parsed.castle_rights = {WHITE_QUEENSIDE, BLACK_KINGSIDE}
    /\ call.parsed.en_passant = from_algebraic(<<"d", "6">>)
    /\ call.parsed.halfmove_clock = 255
    /\ call.parsed.fullmove_counter = 65535
    /\ call.parsed.to_play = Black

\* The squares a and b are on one rank, one file or one diagonal.
SharesLine(a, b) ==
    \/ RankOf(a) = RankOf(b)
    \/ FileOf(a) = FileOf(b)
    \/ Abs(RankOf(a) - RankOf(b)) = Abs(FileOf(a) - FileOf(b))

\* C30: for all squares a and b, between(a, b) is between(b, a), holds
\* neither a nor b, and is empty when a and b share no rank, file or
\* diagonal.
C30_BetweenSymmetric ==
    call.op = "between" =>
        /\ call.ab = call.ba
        /\ call.a \notin call.ab
        /\ call.b \notin call.ab
        /\ ~SharesLine(call.a, call.b) => call.ab = {}

\* between of two squares three steps apart on a diagonal, looked up from
\* the higher square to the lower: the two squares that separate them.
C30_Witness ==
    /\ call.op = "between"
    /\ call.a > call.b
    /\ RankOf(call.a) - RankOf(call.b) = 3
    /\ FileOf(call.b) - FileOf(call.a) = 3
    /\ Cardinality(call.ab) = 2

\* C31: for every square s, to_bitboard_offset(s) lies in 0 .. 63 and
\* from_bitboard_offset(to_bitboard_offset(s)) is s.
C31_OffsetRoundTrip ==
    call.op = "to_bitboard_offset" =>
        /\ call.offset \in 0 .. 63
        /\ call.pos2 = call.pos

\* The square h8, of offset 63, converted and back.
C31_Witness ==
    /\ call.op = "to_bitboard_offset"
    /\ call.pos = [rank |-> "R8", file |-> "H"]
    /\ call.offset = 63
    /\ call.pos2 = call.pos

\* The moves of the chunk for one destination: one without promotion, or the
\* four promotions in the order Queen, Rook, Bishop, Knight.
MovesTo(chunk, dest) ==
    IF chunk.promotion
    THEN <<Move(chunk.source, dest, Queen), Move(chunk.source, dest, Rook),
           Move(chunk.source, dest, Bishop), Move(chunk.source, dest, Knight)>>
    ELSE <<Move(chunk.source, dest, None)>>

\* C32: the enumeration of a chunk ends; it yields, destination after
\* destination and each set destination once, one move without promotion
\* when the promotion flag is false and the four promotions Queen, Rook,
\* Bishop, Knight when it is true; it yields len() moves.
C32_ChunkEnumeration ==
    /\ <>(call.op = "done")
    /\ [](call.op = "done" =>
            LET n == IF call.chunk.promotion THEN 4 ELSE 1
                count == Len(call.yielded) \div n
                dest(k) == call.yielded[(k - 1) * n + 1].to
            IN  /\ Len(call.yielded) = count * n
                /\ {dest(k) : k \in 1 .. count} = call.chunk.dest_set
                /\ count = Cardinality(call.chunk.dest_set)
                /\ \A k \in 1 .. count :
                      SubSeq(call.yielded, (k - 1) * n + 1, k * n)
                          = MovesTo(call.chunk, dest(k))
                /\ Len(call.yielded) = MoveSetChunk_len(call.chunk))

\* A promoting pawn on b7 with three destinations has yielded twelve moves.
C32_Witness ==
    /\ call.op = "done"
    /\ call.chunk.promotion
    /\ call.chunk.source = from_file_rank(1, 6)
    /\ Cardinality(call.chunk.dest_set) = 3
    /\ Len(call.yielded) = 12

\* C33: a node whose move loop is abandoned because a stop or a time-out was
\* observed stores no transposition-table entry.  At the root: a pass of the
\* depth loop that breaks before its last root move leaves the entry of the
\* root position as it was.
C33_AbandonedStoresNothing ==
    [][(/\ srch.pc = "root"
        /\ srch'.pc = "loop"
        /\ srch.idx < Len(srch.moves))
       => LET key == calculate_entire_zobrist(srch.state)
          IN  key \in DOMAIN srch'.t_table =>
                  /\ key \in DOMAIN srch.t_table
                  /\ srch'.t_table[key] = srch.t_table[key]]_vars

\* A pass of the depth loop has been abandoned, and the table holds an entry
\* of the depth of that pass for the root position.
C33_Witness ==
    /\ srch.pc = "loop"
    /\ srch.completed < srch.depth - 1
    /\ calculate_entire_zobrist(srch.state) \in DOMAIN srch.t_table
    /\ srch.t_table[calculate_entire_zobrist(srch.state)].depth = srch.depth - 1
    /\ Len(srch.moves) > 1

\* C34: the stop flag is polled after each move at ply 0, for every iteration
\* depth.  A root move searched while the flag is set is the last one of its
\* pass: the loop over the root moves does not go on to the next move.
C34_StopPolledAtRoot ==
    [][~(/\ srch.pc = "root"
         /\ stop
         /\ srch'.pc = "root"
         /\ srch'.idx = srch.idx + 1)]_vars

\* The loop over the root moves went on to another move although the stop
\* flag was set when the move before it had been searched.
C34_Witness ==
    /\ srch.passed_stop
    /\ srch.pc = "root"
    /\ srch.depth < 4
    /\ stop

\* C35: after stop_search is called while a search is running, that search
\* observes the stop and terminates, whatever the main thread calls in the
\* meantime: at the head of its depth loop it begins no further pass.
C35_StopEndsSearch ==
    [][(srch.pc = "loop" /\ srch.stopped) => srch'.pc # "root"]_vars

\* A search is running for which stop_search was called, and the flag it
\* polls is down again.
C35_Witness ==
    /\ Running
    /\ srch.stopped
    /\ ~stop
    /\ srch.infinite

\* C36: a second search on the same Searcher of a position that has legal
\* moves, with max_depth at least 2 and the stop flag unset, does not panic
\* and, when it returns, returns Ok with a legal move.
C36_SecondSearchReturns ==
    (/\ call.op = "search"
     /\ call.n = 2
     /\ ~stop
     /\ srch.max_depth >= 2
     /\ MoveSet_len(legal_moves(srch.state)) > 0)
    => /\ srch.pc # "panicked"
       /\ srch.pc = "returned" =>
             /\ srch.result.kind = "Ok"
             /\ \E i \in 1 .. MoveSet_len(legal_moves(srch.state)) :
                   MoveSet_iter(legal_moves(srch.state))[i] = srch.result.m

\* The first search of the two kings with max_depth 2 returned, and the
\* second one has panicked.
C36_Witness ==
    /\ call.op = "search"
    /\ call.n = 2
    /\ srch.state = parse_fen(FEN_KINGS)
    /\ srch.max_depth = 2
    /\ ~srch.infinite
    /\ srch.pc = "panicked"

\* The king and the rook of a castle right stand on their home squares.
RightAtHome(state, flag) ==
    LET c == IF flag \in ALL_WHITE THEN White ELSE Black
        home == IF c = White THEN E1 ELSE E8
        corner == CASE flag = WHITE_KINGSIDE -> H1
                    [] flag = WHITE_QUEENSIDE -> A1
                    [] flag = BLACK_KINGSIDE -> H8
                    [] flag = BLACK_QUEENSIDE -> A8
    IN  /\ home \in color_piece_board(state.board, c, King)
        /\ corner \in color_piece_board(state.board, c, Rook)

\* C37: in the root positions, where every castle right held has its king
\* and its rook at home, and in every state reached from them by apply_move
\* of legal moves, every castle right held has its king on e1 or e8 and its
\* rook on the corner of the right.
C37_CastleRightsAtHome ==
    ~IsPanic(st) => \A flag \in st.castle_rights : RightAtHome(st, flag)

\* A rook has left its corner and captured the rook of the opposite corner:
\* a right of each side is gone and a right of each side is still held, its
\* king and rook at home.
C37_Witness ==
    /\ ply > 0
    /\ ~IsPanic(st)
    /\ mv.from \in piece_board(prev.board, Rook)
    /\ mv.to \in piece_board(prev.board, Rook)
    /\ st.castle_rights = {WHITE_KINGSIDE, BLACK_KINGSIDE}
    /\ prev.castle_rights = ALL_WHITE \cup ALL_BLACK
    /\ \A flag \in st.castle_rights : RightAtHome(st, flag)

\* C38: every recursive call of quiescence_search follows a capture, which
\* leaves strictly fewer pieces on the board, so that the depth of the
\* recursion never exceeds the number of pieces the first call began with and
\* the recursion ends.
C38_QuiescenceBounded ==
    (call.op = "quiescence_search" /\ ~IsPanic(st)) =>
        /\ ply > 0 =>
              /\ mv.to \in color_board(prev.board, Not(prev.to_play))
              /\ piece_count(st) < piece_count(prev)
        /\ ply + piece_count(st) <= call.root_pieces
        /\ ply <= call.root_pieces

\* Three captures deep in the recursion, the last one a promotion.
C38_Witness ==
    /\ call.op = "quiescence_search"
    /\ ~IsPanic(st)
    /\ ply = 3
    /\ mv.promotion # None
    /\ piece_count(st) = call.root_pieces - 3

\* C39: parse_fen returns the error TooLargeRank whenever a rank of the
\* piece-placement field describes more than 8 files, piece letters and the
\* squares skipped by digits counted alike.
C39_TooLargeRank ==
    (call.op = "parse_fen" /\ files_described(call.rank_str) > 8)
        => (IsErr(call.result) /\ call.result.err = "TooLargeRank")

\* C39: a rank of more than 8 files that parse_fen has accepted.
C39_Witness ==
    /\ call.op = "parse_fen"
    /\ files_described(call.rank_str) > 8
    /\ ~IsErr(call.result)

\* C39: a piece letter after 8 files of the rank are used is refused with
\* TooLargeRank.
C39_PieceBeyondEighthFile ==
    (call.op = "parse_fen"
        /\ \E i \in DOMAIN call.rank_str :
              /\ ~is_ascii_digit(call.rank_str[i])
              /\ files_described(SubSeq(call.rank_str, 1, i - 1)) >= 8)
        => (IsErr(call.result) /\ call.result.err = "TooLargeRank")

\* C40: in every legal state the two endgame weights that evaluate computes,
\* for the side to move and for its opponent, lie in the interval [0, 1].
C40_EndgameWeightUnit ==
    ~IsPanic(st) =>
        \A color \in Color :
            LET weight == endgame_weight(st, color, material_value(st, Not(st.to_play)))
            IN  0 <= weight[1] /\ weight[1] <= weight[2]

\* C40: a state made by a legal move in which the side to move has more
\* pawns than the opponent has material, and its weight exceeds 1.
C40_Witness ==
    /\ ply > 0
    /\ ~IsPanic(st)
    /\ LET weight == endgame_weight(st, st.to_play, material_value(st, Not(st.to_play)))
       IN  weight[1] > weight[2]

\* C40: neither weight is negative, and the weight of the opponent of the
\* side to move, which is computed from its own material, is at most 1.
C40_WeightNotNegative ==
    ~IsPanic(st) =>
        /\ \A color \in Color :
              endgame_weight(st, color, material_value(st, Not(st.to_play)))[1] >= 0
        /\ LET weight == endgame_weight(st, Not(st.to_play),
                             material_value(st, Not(st.to_play)))
           IN  weight[1] <= weight[2]

====
